---- MODULE Spec2Model ----
(***************************************************************************)
(* arc-arxiv: the arXiv identifier normalizer (NormalizeArxivID) and the   *)
(* metadata mapper (articleToMeta / MetaToArticle) of internal/arxiv, the   *)
(* fetch, update, delete, list, stats and export commands of internal/cmd  *)
(* over the papers directory, and the progressWriter of the PDF download.  *)
(*                                                                         *)
(* Strings are sequences of one-character strings, so that trimming,       *)
(* regular-expression matching and formatting are computed character by    *)
(* character.  A character outside ASCII is a one-element token such as    *)
(* "U+00E9".                                                               *)
(***************************************************************************)
EXTENDS Integers, Sequences, FiniteSets, TLC

VARIABLES
    input,      \* normalizer: the string handed to NormalizeArxivID
    out,        \* normalizer: its (id, err) result, Pending before the call
    npc,        \* normalizer: "ready" before the call, "done" after it
    orig,       \* mapper: the record handed to the first conversion
    mid,        \* mapper: the result of the first conversion
    final,      \* mapper: the result of converting mid back
    mode,       \* mapper: "forward" (remote first) or "reverse" (local first)
    mpc,        \* mapper: number of conversions made so far, 0..2
    fs,         \* commands: the file system, a function from paths to nodes
    cmd,        \* commands: the command that ran last, with what it met, printed and sent
    pw,         \* download: the progressWriter (total, written, cb)
    writes      \* download: the Write calls made on pw so far, with what each returned

vars == <<input, out, npc, orig, mid, final, mode, mpc, fs, cmd, pw, writes>>
nvars == <<input, out, npc>>
mvars == <<orig, mid, final, mode, mpc>>
cvars == <<fs, cmd>>
pvars == <<pw, writes>>

(***************************************************************************)
(* Bounds of the model.                                                    *)
(***************************************************************************)
MaxWs == 2             \* longest run of surrounding whitespace
MaxPaperDigits == 6    \* longest digit run after the '.' of a new-style id
MaxSerialDigits == 8   \* longest digit run after the '/' of an old-style id
MaxVersionDigits == 2  \* longest digit run after the 'v'
MaxTitleLen == 4       \* longest remote title
MaxSummaryLen == 2     \* longest remote summary
MaxAuthors == 2        \* longest author list
MaxCategories == 2     \* longest category list
MaxWrites == 3         \* most Write calls made on one progressWriter
MaxChunkLen == 3       \* longest chunk handed to one Write

Nil == [nil |-> TRUE]           \* Go's nil: a nil record pointer, a nil error
Pending == [pending |-> TRUE]   \* a result that has not been produced yet

(***************************************************************************)
(* Characters and character classes.                                       *)
(***************************************************************************)
DigitChars == <<"0", "1", "2", "3", "4", "5", "6", "7", "8", "9">>
Digit == {DigitChars[i] : i \in 1..10}                          \* regexp \d
LowerChars ==
    <<"a", "b", "c", "d", "e", "f", "g", "h", "i", "j", "k", "l", "m",
      "n", "o", "p", "q", "r", "s", "t", "u", "v", "w", "x", "y", "z">>
LowerHyphen == {LowerChars[i] : i \in 1..26} \cup {"-"}         \* regexp [a-z-]
\* unicode.IsSpace: the characters strings.TrimSpace removes
WhiteSpace == {" ", "\t", "\n", "\r", "\f", "U+000B", "U+0085", "U+00A0"}

Min(S) == CHOOSE x \in S : \A y \in S : x <= y

\* SubSeq that is empty, never an error, when the range leaves the string
Slice(s, a, b) == IF a > b THEN <<>> ELSE SubSeq(s, a, IF b > Len(s) THEN Len(s) ELSE b)

\* s has the literal lit at position i
HasAt(s, i, lit) == i >= 1 /\ i + Len(lit) - 1 <= Len(s) /\ SubSeq(s, i, i + Len(lit) - 1) = lit

\* number of consecutive characters of class C in s from position i on
RECURSIVE RunLen(_, _, _)
RunLen(s, i, C) ==
    IF i >= 1 /\ i <= Len(s) /\ s[i] \in C THEN 1 + RunLen(s, i + 1, C) ELSE 0

(***************************************************************************)
(* strings.TrimSpace                                                       *)
(***************************************************************************)
RECURSIVE TrimLeft(_)
TrimLeft(s) == IF s # <<>> /\ Head(s) \in WhiteSpace THEN TrimLeft(Tail(s)) ELSE s

RECURSIVE TrimRight(_)
TrimRight(s) ==
    IF s # <<>> /\ s[Len(s)] \in WhiteSpace THEN TrimRight(SubSeq(s, 1, Len(s) - 1)) ELSE s

TrimSpaceNoLeading(s) == TrimRight(s)   \* slip: only the tail is trimmed

TrimSpace(s) == TrimRight(TrimLeft(s))

(***************************************************************************)
(* The three patterns of NormalizeArxivID.                                 *)
(***************************************************************************)
\* length of the match of  v\d+  at position i, 0 when it does not match
VersionLen(s, i) ==
    IF i >= 1 /\ i <= Len(s) /\ s[i] = "v" /\ RunLen(s, i + 1, Digit) >= 1
    THEN 1 + RunLen(s, i + 1, Digit)
    ELSE 0

\* (v\d+)?$  from position j: the string ends at j, or a version runs to its end
TailMatches(s, j) ==
    \/ j = Len(s) + 1
    \/ VersionLen(s, j) > 0 /\ j + VersionLen(s, j) = Len(s) + 1

\* oldIDPattern  ^[a-z-]+/\d{7}(v\d+)?$
oldIDPattern(s) ==
    LET a == RunLen(s, 1, LowerHyphen) IN
        /\ a >= 1
        /\ HasAt(s, a + 1, <<"/">>)
        /\ RunLen(s, a + 2, Digit) >= 7
        /\ TailMatches(s, a + 9)

\* newIDPattern  ^\d{4}\.\d{4,5}(v\d+)?$
newIDPattern(s) ==
    /\ RunLen(s, 1, Digit) >= 4
    /\ HasAt(s, 5, <<".">>)
    /\ \E m \in {4, 5} : RunLen(s, 6, Digit) >= m /\ TailMatches(s, 6 + m)

ArxivOrgSlash == <<"a", "r", "x", "i", "v", ".", "o", "r", "g", "/">>
AbsSeg == <<"a", "b", "s">>
PdfSeg == <<"p", "d", "f">>

\* length of the first group of urlPattern at position q:
\*   ([a-z-]+/\d{7}|\d{4}\.\d{4,5})   first alternative first, greedy digits
UrlGroup1Len(s, q) ==
    LET a == RunLen(s, q, LowerHyphen) IN
        IF a >= 1 /\ HasAt(s, q + a, <<"/">>) /\ RunLen(s, q + a + 1, Digit) >= 7
        THEN a + 8
        ELSE IF /\ RunLen(s, q, Digit) >= 4
                /\ HasAt(s, q + 4, <<".">>)
                /\ RunLen(s, q + 5, Digit) >= 4
             THEN 5 + (IF RunLen(s, q + 5, Digit) >= 5 THEN 5 ELSE 4)
             ELSE 0

\* urlPattern matches with its first character at position p; the pattern is
\* not anchored:  arxiv\.org/(?:abs|pdf)/(...)(v\d+)?(?:\.pdf)?
UrlMatchesAt(s, p) ==
    /\ HasAt(s, p, ArxivOrgSlash)
    /\ (HasAt(s, p + 10, AbsSeg) \/ HasAt(s, p + 10, PdfSeg))
    /\ HasAt(s, p + 13, <<"/">>)
    /\ UrlGroup1Len(s, p + 14) > 0

\* slip: the version group is matched but not appended to the identifier
urlSubmatchNoVersion(s) ==
    LET P == {p \in 1..Len(s) : UrlMatchesAt(s, p)} IN
        IF P = {} THEN <<>>
        ELSE LET q == Min(P) + 14
                 g == UrlGroup1Len(s, q)
             IN  <<Slice(s, Min(P), q + g - 1), Slice(s, q, q + g - 1), <<>>>>

\* urlPattern.FindStringSubmatch: <<>> when nothing matches, otherwise
\* <<whole match, group 1, group 2>> of the leftmost match (the optional
\* .pdf is part of the whole match only, which the caller does not use)
urlSubmatch(s) ==
    LET P == {p \in 1..Len(s) : UrlMatchesAt(s, p)} IN
        IF P = {} THEN <<>>
        ELSE LET q == Min(P) + 14
                 g == UrlGroup1Len(s, q)
                 v == VersionLen(s, q + g)
             IN  <<Slice(s, Min(P), q + g + v - 1),
                   Slice(s, q, q + g - 1),
                   Slice(s, q + g, q + g + v - 1)>>

ErrPrefix ==
    <<"i", "n", "v", "a", "l", "i", "d", " ", "a", "r", "X", "i", "v", " ",
      "I", "D", " ", "o", "r", " ", "U", "R", "L", ":", " ">>

\* fmt.Errorf("invalid arXiv ID or URL: %s", input)
InvalidIDError(arg) == [msg |-> ErrPrefix \o arg, arg |-> arg]

\* slip: the error is built from the caller's string, before trimming
NormalizeArxivIDRawError(in) ==
    LET s == TrimSpace(in)
        matches == urlSubmatch(s)
    IN  IF Len(matches) >= 2
        THEN [id |-> (IF Len(matches) > 2 /\ matches[3] # <<>>
                      THEN matches[2] \o matches[3]
                      ELSE matches[2]),
              err |-> Nil]
        ELSE IF oldIDPattern(s) \/ newIDPattern(s)
             THEN [id |-> s, err |-> Nil]
             ELSE [id |-> <<>>, err |-> InvalidIDError(in)]

\* slip: the URL branch returns the whole match, not the identifier in it
NormalizeArxivIDWholeMatch(in) ==
    LET s == TrimSpace(in)
        matches == urlSubmatch(s)
    IN  IF Len(matches) >= 2
        THEN [id |-> matches[1], err |-> Nil]
        ELSE IF oldIDPattern(s) \/ newIDPattern(s)
             THEN [id |-> s, err |-> Nil]
             ELSE [id |-> <<>>, err |-> InvalidIDError(s)]

NormalizeArxivID(in) ==
    LET s == TrimSpace(in)
        matches == urlSubmatch(s)
    IN  IF Len(matches) >= 2
        THEN [id |-> (IF Len(matches) > 2 /\ matches[3] # <<>>
                      THEN matches[2] \o matches[3]
                      ELSE matches[2]),
              err |-> Nil]
        ELSE IF oldIDPattern(s) \/ newIDPattern(s)
             THEN [id |-> s, err |-> Nil]
             ELSE [id |-> <<>>, err |-> InvalidIDError(s)]

\* IsValidArxivID
IsValidArxivID(in) == NormalizeArxivID(in).err = Nil

(***************************************************************************)
(* Inputs of the normalizer: an optional URL prefix (scheme, host, path),  *)
(* an identifier-like core, an optional version, an optional suffix, and   *)
(* surrounding whitespace.                                                 *)
(***************************************************************************)
DigitRun(n) == [i \in 1..n |-> DigitChars[(i % 10) + 1]]       \* "1", "12", "123", ...
LeadChars == <<" ", "\t", "\n", "U+00A0", "\r">>
TrailChars == <<"\n", "\t", " ", "\r", "U+00A0">>
LeadRun(n) == [i \in 1..n |-> LeadChars[((i - 1) % 5) + 1]]
TrailRun(n) == [i \in 1..n |-> TrailChars[((i - 1) % 5) + 1]]
LeadRuns == {LeadRun(n) : n \in 0..MaxWs}
TrailRuns == {TrailRun(n) : n \in 0..MaxWs}

YearMonth == <<"2", "3", "0", "4">>
Dot == <<".">>
Slash == <<"/">>
DotPdf == <<".", "p", "d", "f">>

SchemeHttps == <<"h", "t", "t", "p", "s", ":", "/", "/">>
SchemeHttp == <<"h", "t", "t", "p", ":", "/", "/">>
SchemeFtp == <<"f", "t", "p", ":", "/", "/">>
HostArxiv == <<"a", "r", "x", "i", "v", ".", "o", "r", "g">>
HostWww == <<"w", "w", "w", ".">> \o HostArxiv
HostExport == <<"e", "x", "p", "o", "r", "t", ".">> \o HostArxiv
HostExample == <<"e", "x", "a", "m", "p", "l", "e", ".", "c", "o", "m">>
HostNotArxiv == <<"n", "o", "t">> \o HostArxiv
PathAbs == <<"/", "a", "b", "s", "/">>
PathPdf == <<"/", "p", "d", "f", "/">>

Schemes == {<<>>, SchemeHttps, SchemeHttp, SchemeFtp}
HttpSchemes == {SchemeHttps, SchemeHttp}
Hosts == {HostArxiv, HostWww, HostExport, HostExample, HostNotArxiv}
ArxivHosts == {HostArxiv, HostWww, HostExport}
Paths == {PathAbs, PathPdf}
\* every scheme with arxiv.org, and http(s) with every host
UrlPrefixes ==
    {s \o h \o p : s \in HttpSchemes, h \in Hosts, p \in Paths}
    \cup {s \o HostArxiv \o p : s \in Schemes, p \in Paths}

ArchiveHepTh == <<"h", "e", "p", "-", "t", "h">>
ArchiveUpper == <<"C", "s">>
Archives == {ArchiveHepTh, <<>>, ArchiveUpper}

NewCores == {YearMonth \o Dot \o DigitRun(n) : n \in 2..MaxPaperDigits}
OldCores == {a \o Slash \o DigitRun(n) : a \in Archives, n \in 6..MaxSerialDigits}
RandomText == <<"n", "o", "t", " ", "a", "n", " ", "i", "d">>
OtherCores == {<<>>, YearMonth, RandomText}
Cores == NewCores \cup OldCores \cup OtherCores

Versions ==
    {<<>>, <<"v">>, <<"v", "-", "1">>} \cup {<<"v">> \o DigitRun(k) : k \in 1..MaxVersionDigits}
Suffixes == {<<>>, DotPdf, Slash, DotPdf \o Slash}

\* bare strings in every whitespace wrapping; URL-shaped strings and bare
\* strings with a suffix, unwrapped or wrapped in the longest runs
Inputs ==
    {l \o c \o v \o r : l \in LeadRuns, c \in Cores, v \in Versions, r \in TrailRuns}
    \cup {w[1] \o u \o c \o v \o x \o w[2] :
            w \in {<<<<>>, <<>>>>, <<LeadRun(MaxWs), TrailRun(MaxWs)>>},
            u \in {<<>>} \cup UrlPrefixes, c \in Cores, v \in Versions, x \in Suffixes}

(***************************************************************************)
(* The normalizer as a state machine: an input is drawn, NormalizeArxivID  *)
(* is applied to it once.                                                  *)
(***************************************************************************)
CommandsIdle ==
    /\ fs = Nil
    /\ cmd = Pending

ProgressIdle ==
    /\ pw = Nil
    /\ writes = <<>>

MapperIdle ==
    /\ orig = Nil
    /\ mid = Pending
    /\ final = Pending
    /\ mode = "idle"
    /\ mpc = 0

InitNormalizer ==
    /\ input \in Inputs
    /\ out = Pending
    /\ npc = "ready"
    /\ MapperIdle
    /\ CommandsIdle
    /\ ProgressIdle

Normalize ==
    /\ npc = "ready"
    /\ out' = NormalizeArxivID(input)
    /\ npc' = "done"
    /\ UNCHANGED <<input, mvars, cvars, pvars>>

NextNormalizer == Normalize

SpecNormalizer == InitNormalizer /\ [][NextNormalizer]_vars

(***************************************************************************)
(* The identifier grammar of the specification, written as the sets of     *)
(* strings it generates (within the bounds), independently of the          *)
(* patterns above.                                                         *)
(***************************************************************************)
GrammarVersions == {<<>>} \cup {<<"v">> \o DigitRun(k) : k \in 1..MaxVersionDigits}
GrammarArchives == {a \in Archives : Len(a) >= 1 /\ \A i \in 1..Len(a) : a[i] \in LowerHyphen}
GrammarNewIds == {YearMonth \o Dot \o DigitRun(n) \o v : n \in {4, 5}, v \in GrammarVersions}
GrammarOldIds == {a \o Slash \o DigitRun(7) \o v : a \in GrammarArchives, v \in GrammarVersions}
GrammarIds == GrammarNewIds \cup GrammarOldIds

Done == npc = "done"
Accepted == Done /\ out.err = Nil
Rejected == Done /\ out.err # Nil

\* the part of the input after its first n characters
Rest(n) == Slice(input, n + 1, Len(input))

\* C1: an input that is a grammar identifier (new-style or old-style) wrapped
\* in leading and trailing whitespace is accepted, and the result is exactly
\* that identifier.
C1_GrammarIdReturnedTrimmed ==
    \A l \in LeadRuns, r \in TrailRuns :
        (Done /\ HasAt(input, 1, l) /\ Rest(Len(l)) \in {x \o r : x \in GrammarIds})
            => \E x \in GrammarIds : input = l \o x \o r /\ out = [id |-> x, err |-> Nil]

C1_Witness ==
    /\ Done
    /\ \E x \in GrammarOldIds : input = LeadRun(MaxWs) \o x \o TrailRun(MaxWs) /\ out.id = x

\* C2: for every identifier X accepted as a bare identifier, the four
\* abs URLs of X and the pdf URL of X with the .pdf suffix are accepted
\* and give the result of normalizing X itself.
AbsUrlPrefixes ==
    {SchemeHttps \o HostArxiv \o PathAbs, SchemeHttp \o HostArxiv \o PathAbs,
     SchemeHttps \o HostWww \o PathAbs, SchemeHttps \o HostExport \o PathAbs}
UrlFormsOf(X) ==
    {u \o X : u \in AbsUrlPrefixes} \cup {SchemeHttps \o HostArxiv \o PathPdf \o X \o DotPdf}
AcceptedBareIds ==
    {X \in {c \o v : c \in Cores, v \in Versions} : oldIDPattern(X) \/ newIDPattern(X)}

C2_UrlFormsAgreeWithBareId ==
    \A X \in AcceptedBareIds :
        (Done /\ input \in UrlFormsOf(X)) => out.err = Nil /\ out = NormalizeArxivID(X)

C2_Witness ==
    /\ Done
    /\ \E X \in AcceptedBareIds :
        /\ VersionLen(X, Len(X) - MaxVersionDigits) > 0
        /\ input = SchemeHttps \o HostArxiv \o PathPdf \o X \o DotPdf
        /\ out.id = X

\* C3: a URL-shaped input (scheme, host, /abs/ or /pdf/, identifier) is
\* rejected when its host is not arxiv.org, www.arxiv.org or export.arxiv.org,
\* when its scheme is not http or https, and when it has no scheme at all.
C3_ForeignUrlsRejected ==
    \A s \in Schemes, h \in Hosts, p \in Paths :
        (/\ Done
         /\ s \notin HttpSchemes \/ h \notin ArxivHosts
         /\ HasAt(input, 1, s \o h \o p)
         /\ Rest(Len(s \o h \o p)) \in GrammarIds)
            => out.err # Nil

\* C4: a URL is accepted only when everything after /abs/ or /pdf/, apart
\* from an optional .pdf and one trailing slash, is a grammar identifier,
\* and that identifier is the result.
WellFormedUrlPrefixes == {s \o h \o p : s \in HttpSchemes, h \in ArxivHosts, p \in Paths}

C4_UrlIdentifierIsWholePath ==
    \A u \in WellFormedUrlPrefixes :
        (Accepted /\ HasAt(input, 1, u))
            => \E x \in GrammarIds, sfx \in Suffixes, r \in TrailRuns :
                    Rest(Len(u)) = x \o sfx \o r /\ out.id = x

\* C5: an input that matches none of the accepted shapes (a grammar
\* identifier, or a well-formed arXiv URL of one, in optional whitespace)
\* fails with an empty identifier; this covers the empty and the
\* whitespace-only string, 2-, 3- and 6-digit paper numbers, "v" without
\* digits and "v-1".
AcceptedShapes ==
    GrammarIds \cup {u \o x \o sfx : u \in WellFormedUrlPrefixes, x \in GrammarIds, sfx \in Suffixes}
AcceptedShapeInputs == {l \o t \o r : l \in LeadRuns, t \in AcceptedShapes, r \in TrailRuns}

C5_OtherTextRejected ==
    (Done /\ input \notin AcceptedShapeInputs) => out.err # Nil /\ out.id = <<>>

\* C6 as claimed: every failure has the message prefix "invalid arXiv ID or
\* URL: " and carries the string the caller gave.
C6_ErrorCarriesOriginalInput ==
    Rejected => out.err.msg = ErrPrefix \o input

\* C6 as amended: every failure has the message prefix "invalid arXiv ID or
\* URL: " and carries the caller's string with its leading and trailing
\* whitespace removed.
C6_ErrorCarriesTrimmedInput ==
    Rejected =>
        /\ out.id = <<>>
        /\ HasAt(out.err.msg, 1, ErrPrefix)
        /\ LET carried == Slice(out.err.msg, Len(ErrPrefix) + 1, Len(out.err.msg)) IN
            /\ \E l \in LeadRuns, r \in TrailRuns : input = l \o carried \o r
            /\ carried # <<>> => carried[1] \notin WhiteSpace /\ carried[Len(carried)] \notin WhiteSpace

C6_Witness ==
    /\ Rejected
    /\ Len(input) > MaxWs
    /\ input[1] \in WhiteSpace
    /\ input[Len(input)] \in WhiteSpace
    /\ out.err.msg # ErrPrefix

(***************************************************************************)
(* Records of the metadata mapper.                                         *)
(*   goarxiv.Article   the remote record; *string fields are options       *)
(*   ArxivMeta         the local record; every string field is a string    *)
(***************************************************************************)
None == [present |-> FALSE, val |-> <<>>]          \* a nil *string
Some(s) == [present |-> TRUE, val |-> s]           \* a *string pointing at s

\* time.Time, restricted to 1 January 00:00:SS UTC of a year
ZeroTime == [year |-> 1, sec |-> 0, nsec |-> 0]    \* time.Time{}

RECURSIVE Pow10(_)
Pow10(k) == IF k <= 0 THEN 1 ELSE 10 * Pow10(k - 1)
Pad(n, w) == [i \in 1..w |-> DigitChars[((n \div Pow10(w - i)) % 10) + 1]]

\* strconv.Atoi on a run of decimal digits
RECURSIVE Atoi(_)
Atoi(ds) ==
    IF ds = <<>> THEN 0
    ELSE 10 * Atoi(SubSeq(ds, 1, Len(ds) - 1))
         + (CHOOSE n \in 0..9 : DigitChars[n + 1] = ds[Len(ds)])

DateRest == <<"-", "0", "1", "-", "0", "1", "T", "0", "0", ":", "0", "0", ":">>

\* t.Format(time.RFC3339): seconds precision, the nanoseconds are dropped
FormatRFC3339(t) == Pad(t.year, 4) \o DateRest \o Pad(t.sec, 2) \o <<"Z">>

\* time.Parse(time.RFC3339, s) with its error discarded: the zero time on failure
ParseRFC3339(s) ==
    IF /\ Len(s) = 20
       /\ RunLen(s, 1, Digit) = 4
       /\ HasAt(s, 5, DateRest)
       /\ RunLen(s, 18, Digit) = 2
       /\ Atoi(SubSeq(s, 18, 19)) <= 59
       /\ s[20] = "Z"
    THEN [year |-> Atoi(SubSeq(s, 1, 4)), sec |-> Atoi(SubSeq(s, 18, 19)), nsec |-> 0]
    ELSE ZeroTime

(***************************************************************************)
(* Methods of goarxiv.Article that articleToMeta calls.                    *)
(***************************************************************************)
\* number of digits at the end of s
RECURSIVE TrailingDigits(_)
TrailingDigits(s) ==
    IF s # <<>> /\ s[Len(s)] \in Digit THEN 1 + TrailingDigits(SubSeq(s, 1, Len(s) - 1)) ELSE 0

\* length of the version suffix v<digits> of an identifier, 0 when it has none
VersionSuffixLen(id) ==
    LET d == TrailingDigits(id) IN
        IF d >= 1 /\ Len(id) > d /\ id[Len(id) - d] = "v" THEN d + 1 ELSE 0

BaseID(article) == SubSeq(article.ID, 1, Len(article.ID) - VersionSuffixLen(article.ID))

Version(article) ==
    IF VersionSuffixLen(article.ID) = 0 THEN 1
    ELSE Atoi(SubSeq(article.ID, Len(article.ID) - VersionSuffixLen(article.ID) + 2, Len(article.ID)))

AbsUrlBase == SchemeHttps \o HostArxiv \o PathAbs
PdfUrlBase == SchemeHttps \o HostArxiv \o PathPdf
AbstractURL(article) == AbsUrlBase \o article.ID
PDFURL(article) == PdfUrlBase \o BaseID(article) \o DotPdf

(***************************************************************************)
(* articleToMeta and MetaToArticle.                                        *)
(***************************************************************************)
PaperDash == <<"p", "a", "p", "e", "r", "-">>
ArxivTag == <<"a", "r", "x", "i", "v">>

\* the loop over article.Authors
AuthorToLocal(a) ==
    [Name |-> a.Name,
     Affiliation |-> IF a.Affiliation # None THEN a.Affiliation.val ELSE <<>>]

\* the loop over meta.Authors
AuthorToRemote(a) ==
    [Name |-> a.Name,
     Affiliation |-> IF a.Affiliation # <<>> THEN Some(a.Affiliation) ELSE None]

\* the ArxivMeta built for a non-nil article at clock reading now
NewMeta(article, now) ==
    [ID |-> PaperDash \o BaseID(article),
     ArxivID |-> BaseID(article),
     Title |-> TrimSpace(article.Title),
     SourceType |-> ArxivTag,
     URL |-> AbstractURL(article),
     PDFURL |-> PDFURL(article),
     Published |-> FormatRFC3339(article.Published),
     Updated |-> FormatRFC3339(article.Updated),
     Authors |-> [i \in 1..Len(article.Authors) |-> AuthorToLocal(article.Authors[i])],
     Abstract |-> TrimSpace(article.Summary),
     Categories |-> article.Categories,
     PrimaryCategory |-> article.PrimaryCategory,
     Comment |-> IF article.Comment # None THEN article.Comment.val ELSE <<>>,
     JournalRef |-> IF article.JournalRef # None THEN article.JournalRef.val ELSE <<>>,
     DOI |-> IF article.DOI # None THEN article.DOI.val ELSE <<>>,
     Version |-> Version(article),
     FetchedAt |-> FormatRFC3339(now)]

\* slip: the nil check is missing and a zero-valued record comes back
articleToMetaNoNilCheck(article, now) ==
    IF article = Nil
    THEN [ID |-> <<>>, ArxivID |-> <<>>, Title |-> <<>>, SourceType |-> <<>>, URL |-> <<>>,
          PDFURL |-> <<>>, Published |-> <<>>, Updated |-> <<>>, Authors |-> <<>>,
          Abstract |-> <<>>, Categories |-> <<>>, PrimaryCategory |-> <<>>, Comment |-> <<>>,
          JournalRef |-> <<>>, DOI |-> <<>>, Version |-> 0, FetchedAt |-> <<>>]
    ELSE NewMeta(article, now)

\* slip: the identifier is stored as received, version suffix included
articleToMetaKeepsVersionedID(article, now) ==
    IF article = Nil THEN Nil
    ELSE [NewMeta(article, now) EXCEPT !.ArxivID = article.ID, !.ID = PaperDash \o article.ID]

\* slip: the Version field is never filled in
articleToMetaVersionUnset(article, now) ==
    IF article = Nil THEN Nil ELSE [NewMeta(article, now) EXCEPT !.Version = 0]

\* slip: title and summary are copied without strings.TrimSpace
articleToMetaNoTrim(article, now) ==
    IF article = Nil THEN Nil
    ELSE [NewMeta(article, now) EXCEPT !.Title = article.Title, !.Abstract = article.Summary]

\* slip: authors with a blank name are filtered out
HasName(a) == TrimSpace(a.Name) # <<>>

articleToMetaSkipsBlankAuthors(article, now) ==
    IF article = Nil THEN Nil
    ELSE [NewMeta(article, now) EXCEPT
            !.Authors = LET named == SelectSeq(article.Authors, HasName) IN
                            [i \in 1..Len(named) |-> AuthorToLocal(named[i])]]

\* slip: the abstract-page URL is built from the base identifier
articleToMetaUrlFromBaseID(article, now) ==
    IF article = Nil THEN Nil
    ELSE [NewMeta(article, now) EXCEPT !.URL = AbsUrlBase \o BaseID(article)]

articleToMeta(article, now) ==
    IF article = Nil THEN Nil ELSE NewMeta(article, now)

\* the goarxiv.Article built for a non-nil meta
NewArticle(meta) ==
    [ID |-> meta.ArxivID,
     Title |-> meta.Title,
     Summary |-> meta.Abstract,
     Authors |-> [i \in 1..Len(meta.Authors) |-> AuthorToRemote(meta.Authors[i])],
     Published |-> ParseRFC3339(meta.Published),
     Updated |-> ParseRFC3339(meta.Updated),
     PrimaryCategory |-> meta.PrimaryCategory,
     Categories |-> meta.Categories,
     Comment |-> IF meta.Comment # <<>> THEN Some(meta.Comment) ELSE None,
     JournalRef |-> IF meta.JournalRef # <<>> THEN Some(meta.JournalRef) ELSE None,
     DOI |-> IF meta.DOI # <<>> THEN Some(meta.DOI) ELSE None]

\* slip: the optional pointers are set whether or not the string is empty
MetaToArticleAlwaysPresent(meta) ==
    IF meta = Nil THEN Nil
    ELSE [NewArticle(meta) EXCEPT !.Comment = Some(meta.Comment),
                                  !.JournalRef = Some(meta.JournalRef),
                                  !.DOI = Some(meta.DOI)]

\* slip: the primary category is not carried over
MetaToArticleNoPrimaryCategory(meta) ==
    IF meta = Nil THEN Nil ELSE [NewArticle(meta) EXCEPT !.PrimaryCategory = <<>>]

\* slip: the summary is filled from the title
MetaToArticleSummaryFromTitle(meta) ==
    IF meta = Nil THEN Nil ELSE [NewArticle(meta) EXCEPT !.Summary = meta.Title]

\* slip: the parse error is returned as a failed conversion
MetaToArticleNilOnBadTime(meta) ==
    IF meta = Nil THEN Nil
    ELSE IF \/ FormatRFC3339(ParseRFC3339(meta.Published)) # meta.Published
            \/ FormatRFC3339(ParseRFC3339(meta.Updated)) # meta.Updated
         THEN Nil
         ELSE NewArticle(meta)

MetaToArticle(meta) ==
    IF meta = Nil THEN Nil ELSE NewArticle(meta)

(***************************************************************************)
(* Inputs of the mapper.  Every family varies a few fields of a default    *)
(* record, the fields being converted independently of each other.         *)
(***************************************************************************)
SeqsUpTo(S, n) == UNION {[1..k -> S] : k \in 0..n}

TextChars == {" ", "\t", "a", "U+00E9"}
Titles == SeqsUpTo(TextChars, MaxTitleLen)
Summaries == SeqsUpTo({"\n", "b", "U+65E5", ","}, MaxSummaryLen)

RemoteVersions == {<<>>, <<"v">>} \cup {<<"v">> \o DigitRun(k) : k \in 1..MaxVersionDigits}
RemoteIds ==
    {<<>>} \cup {c \o v : c \in {YearMonth \o Dot \o DigitRun(5), ArchiveHepTh \o Slash \o DigitRun(7)},
                          v \in RemoteVersions}

CsLG == <<"c", "s", ".", "L", "G">>
CsAI == <<"c", "s", ".", "A", "I">>
Mit == <<"M", "I", "T">>
Times == {ZeroTime, [year |-> 2023, sec |-> 4, nsec |-> 0], [year |-> 2023, sec |-> 15, nsec |-> 500]}
Clock == {[year |-> 2025, sec |-> 7, nsec |-> 250], [year |-> 2025, sec |-> 8, nsec |-> 0]}
OptionalStrings == {None, Some(<<>>), Some(<<"1", "0", " ", "p", "p">>)}

RemoteAuthors ==
    {[Name |-> <<"A", "l">>, Affiliation |-> Some(Mit)],
     [Name |-> <<"B", "o">>, Affiliation |-> None],
     [Name |-> <<>>, Affiliation |-> Some(<<>>)],
     [Name |-> <<" ">>, Affiliation |-> None]}

DefaultRemote ==
    [ID |-> YearMonth \o Dot \o DigitRun(5) \o <<"v", "1">>,
     Title |-> <<"a">>,
     Summary |-> <<"b">>,
     Authors |-> <<[Name |-> <<"A", "l">>, Affiliation |-> Some(Mit)]>>,
     Published |-> [year |-> 2023, sec |-> 4, nsec |-> 0],
     Updated |-> [year |-> 2023, sec |-> 15, nsec |-> 500],
     PrimaryCategory |-> CsLG,
     Categories |-> <<CsLG, CsAI>>,
     Comment |-> None,
     JournalRef |-> None,
     DOI |-> None]

RemoteRecords ==
    {[DefaultRemote EXCEPT !.ID = i, !.Title = t] : i \in RemoteIds, t \in Titles}
    \cup {[DefaultRemote EXCEPT !.ID = i, !.Summary = s] : i \in RemoteIds, s \in Summaries}
    \cup {[DefaultRemote EXCEPT !.Authors = a, !.Categories = c, !.PrimaryCategory = p] :
            a \in SeqsUpTo(RemoteAuthors, MaxAuthors),
            c \in SeqsUpTo({CsLG, CsAI}, MaxCategories),
            p \in {CsLG, <<>>}}
    \cup {[DefaultRemote EXCEPT !.Comment = c, !.JournalRef = j, !.DOI = d,
                                !.Published = p, !.Updated = u] :
            c \in OptionalStrings, j \in OptionalStrings, d \in OptionalStrings,
            p \in Times, u \in Times}

\* local records as fetch stores them, and as a user may have edited them
\* in meta.yaml afterwards
NotATime == <<"s", "o", "o", "n">>
LocalTimes == {FormatRFC3339(t) : t \in Times} \cup {<<>>, NotATime}
LocalAuthors ==
    {[Name |-> <<"A", "l">>, Affiliation |-> Mit],
     [Name |-> <<"B", "o">>, Affiliation |-> <<>>],
     [Name |-> <<>>, Affiliation |-> <<>>]}
LocalStrings == {<<>>, <<"1", "0", " ", "p", "p">>}

DefaultLocal == NewMeta(DefaultRemote, [year |-> 2025, sec |-> 7, nsec |-> 0])

LocalRecords ==
    {NewMeta(r, [year |-> 2025, sec |-> 7, nsec |-> 0]) :
        r \in {[DefaultRemote EXCEPT !.ID = i] : i \in RemoteIds}}
    \cup {[DefaultLocal EXCEPT !.Title = t] : t \in Titles}
    \cup {[DefaultLocal EXCEPT !.Abstract = s] : s \in Summaries}
    \cup {[DefaultLocal EXCEPT !.Authors = a, !.Categories = c, !.PrimaryCategory = p] :
            a \in SeqsUpTo(LocalAuthors, MaxAuthors),
            c \in SeqsUpTo({CsLG, CsAI}, MaxCategories),
            p \in {CsLG, <<>>}}
    \cup {[DefaultLocal EXCEPT !.Comment = c, !.JournalRef = j, !.DOI = d,
                               !.Published = p, !.Updated = u] :
            c \in LocalStrings, j \in LocalStrings, d \in LocalStrings,
            p \in LocalTimes, u \in LocalTimes}

(***************************************************************************)
(* The mapper as a state machine: a record is drawn and converted there    *)
(* and back, remote first ("forward") or local first ("reverse").          *)
(***************************************************************************)
NormalizerIdle ==
    /\ input = <<>>
    /\ out = Pending
    /\ npc = "idle"

InitMapper ==
    /\ NormalizerIdle
    /\ CommandsIdle
    /\ ProgressIdle
    /\ \/ mode = "forward" /\ orig \in RemoteRecords \cup {Nil}
       \/ mode = "reverse" /\ orig \in LocalRecords \cup {Nil}
    /\ mid = Pending
    /\ final = Pending
    /\ mpc = 0

CallArticleToMeta ==
    /\ \E now \in Clock :
        \/ /\ mode = "forward" /\ mpc = 0
           /\ mid' = articleToMeta(orig, now)
           /\ final' = final
        \/ /\ mode = "reverse" /\ mpc = 1
           /\ final' = articleToMeta(mid, now)
           /\ mid' = mid
    /\ mpc' = mpc + 1
    /\ UNCHANGED <<orig, mode, nvars, cvars, pvars>>

CallMetaToArticle ==
    /\ \/ /\ mode = "reverse" /\ mpc = 0
          /\ mid' = MetaToArticle(orig)
          /\ final' = final
       \/ /\ mode = "forward" /\ mpc = 1
          /\ final' = MetaToArticle(mid)
          /\ mid' = mid
    /\ mpc' = mpc + 1
    /\ UNCHANGED <<orig, mode, nvars, cvars, pvars>>

NextMapper == CallArticleToMeta \/ CallMetaToArticle

SpecMapper == InitMapper /\ [][NextMapper]_vars

\* the (remote record, local record made from it) pairs of the current state
Conversions ==
    (IF mode = "forward" /\ mpc >= 1 /\ orig # Nil THEN {<<orig, mid>>} ELSE {})
    \cup (IF mode = "reverse" /\ mpc = 2 /\ mid # Nil THEN {<<mid, final>>} ELSE {})

EndsWith(s, w) == Len(w) <= Len(s) /\ SubSeq(s, Len(s) - Len(w) + 1, Len(s)) = w

\* C7: a nil remote record maps to a nil local record and a nil local
\* record maps to a nil remote record, in whichever order the two
\* conversions are applied.
C7_NilMapsToNil ==
    /\ (mpc >= 1 /\ mode \in {"forward", "reverse"} /\ orig = Nil) => mid = Nil
    /\ (mpc = 2 /\ mode \in {"forward", "reverse"} /\ mid = Nil) => final = Nil

C7_Witness == mode = "reverse" /\ mpc = 2 /\ orig = Nil /\ mid = Nil /\ final = Nil

\* C8: the local record's arxiv_id is the remote identifier without its
\* version suffix and does not end in 'v' and digits, its id is "paper-"
\* followed by arxiv_id, and its source_type is "arxiv".
VersionSuffixes == {<<"v">> \o DigitRun(k) : k \in 1..MaxVersionDigits}

C8_BaseIdentifierStored ==
    \A c \in Conversions :
        /\ \E v \in {<<>>} \cup VersionSuffixes : c[1].ID = c[2].ArxivID \o v
        /\ \A v \in VersionSuffixes : ~EndsWith(c[2].ArxivID, v)
        /\ c[2].ID = <<"p", "a", "p", "e", "r", "-">> \o c[2].ArxivID
        /\ c[2].SourceType = <<"a", "r", "x", "i", "v">>

C8_Witness ==
    /\ mode = "forward" /\ mpc >= 1 /\ orig # Nil
    /\ EndsWith(orig.ID, <<"v">> \o DigitRun(MaxVersionDigits))
    /\ mid.ArxivID # <<>>
    /\ mid.ArxivID # orig.ID

\* C9: the local version is N when the remote identifier ends in vN, and 1
\* when the remote identifier has no version suffix.
\* the number that DigitRun(k) spells: 1, 12, 123, ...
DigitRunValue(k) == 123456789 \div Pow10(9 - k)

C9_VersionFromSuffix ==
    \A c \in Conversions :
        /\ \A k \in 1..MaxVersionDigits :
            EndsWith(c[1].ID, <<"v">> \o DigitRun(k)) => c[2].Version = DigitRunValue(k)
        /\ (\A v \in VersionSuffixes : ~EndsWith(c[1].ID, v)) => c[2].Version = 1

C9_Witness ==
    /\ mode = "forward" /\ mpc >= 1 /\ orig # Nil
    /\ EndsWith(orig.ID, <<"v">> \o DigitRun(MaxVersionDigits))
    /\ mid.Version = DigitRunValue(MaxVersionDigits)
    /\ mid.Version > 1

\* C10: the local title and abstract are the remote title and summary
\* without their leading and trailing whitespace; the characters between,
\* whitespace and non-ASCII ones included, are kept as they are.
IsTrimOf(t, s) ==
    \E i, j \in 0..Len(s) :
        /\ i + j <= Len(s)
        /\ \A k \in 1..i : s[k] \in WhiteSpace
        /\ \A k \in (Len(s) - j + 1)..Len(s) : s[k] \in WhiteSpace
        /\ t = SubSeq(s, i + 1, Len(s) - j)
        /\ t # <<>> => t[1] \notin WhiteSpace /\ t[Len(t)] \notin WhiteSpace

C10_TitleAndAbstractTrimmedOnly ==
    \A c \in Conversions :
        /\ IsTrimOf(c[2].Title, c[1].Title)
        /\ IsTrimOf(c[2].Abstract, c[1].Summary)

C10_Witness ==
    /\ mode = "forward" /\ mpc >= 1 /\ orig # Nil
    /\ Len(orig.Title) = 4
    /\ orig.Title[1] \in WhiteSpace
    /\ Len(mid.Title) = 3
    /\ mid.Title[2] \in WhiteSpace
    /\ mid.Title[3] = "U+00E9"

\* the (local record, remote record made from it) pairs of the current state
Exports ==
    (IF mode = "reverse" /\ mpc >= 1 /\ orig # Nil THEN {<<orig, mid>>} ELSE {})
    \cup (IF mode = "forward" /\ mpc = 2 /\ mid # Nil THEN {<<mid, final>>} ELSE {})

\* C11: for comment, journal reference, DOI and each author's affiliation,
\* articleToMeta maps an absent value to the empty string and a present
\* value to a copy of it; MetaToArticle maps the empty string to an absent
\* value, never a present-but-empty one, and a non-empty string to a
\* present value equal to it.
ToLocalOptional(remote, local) ==
    /\ ~remote.present => local = <<>>
    /\ remote.present => local = remote.val

ToRemoteOptional(local, remote) ==
    /\ local = <<>> => ~remote.present
    /\ local # <<>> => remote.present /\ remote.val = local

C11_OptionalFieldsCollapse ==
    /\ \A c \in Conversions :
        /\ ToLocalOptional(c[1].Comment, c[2].Comment)
        /\ ToLocalOptional(c[1].JournalRef, c[2].JournalRef)
        /\ ToLocalOptional(c[1].DOI, c[2].DOI)
        /\ Len(c[2].Authors) = Len(c[1].Authors)
        /\ \A i \in 1..Len(c[1].Authors) :
            ToLocalOptional(c[1].Authors[i].Affiliation, c[2].Authors[i].Affiliation)
    /\ \A e \in Exports :
        /\ ToRemoteOptional(e[1].Comment, e[2].Comment)
        /\ ToRemoteOptional(e[1].JournalRef, e[2].JournalRef)
        /\ ToRemoteOptional(e[1].DOI, e[2].DOI)
        /\ Len(e[2].Authors) = Len(e[1].Authors)
        /\ \A i \in 1..Len(e[1].Authors) :
            ToRemoteOptional(e[1].Authors[i].Affiliation, e[2].Authors[i].Affiliation)

C11_Witness ==
    /\ mode = "forward" /\ mpc = 2 /\ orig # Nil
    /\ orig.Comment = Some(<<>>) /\ mid.Comment = <<>> /\ final.Comment = None
    /\ orig.DOI.present /\ orig.DOI.val # <<>> /\ final.DOI = orig.DOI
    /\ ~orig.JournalRef.present /\ mid.JournalRef = <<>>

\* C12 as stated: for a remote record R whose optional fields are not
\* blank, MetaToArticle(articleToMeta(R)) has the title, summary, primary
\* category, category list and author names of R.
NotBlank(o) == o.present => o.val # <<>>

NoBlankOptionals(r) ==
    /\ NotBlank(r.Comment) /\ NotBlank(r.JournalRef) /\ NotBlank(r.DOI)
    /\ \A i \in 1..Len(r.Authors) : NotBlank(r.Authors[i].Affiliation)

Names(authors) == [i \in 1..Len(authors) |-> authors[i].Name]

RemoteRoundTrip == mode = "forward" /\ mpc = 2 /\ orig # Nil /\ NoBlankOptionals(orig)

C12_RemoteRoundTripExact ==
    RemoteRoundTrip =>
        /\ final.Title = orig.Title
        /\ final.Summary = orig.Summary
        /\ final.PrimaryCategory = orig.PrimaryCategory
        /\ final.Categories = orig.Categories
        /\ Names(final.Authors) = Names(orig.Authors)

\* C12 amended: the round trip keeps the primary category, the category
\* list and the author names of R, and gives R's title and summary without
\* their leading and trailing whitespace.
C12_RemoteRoundTripTrimmed ==
    RemoteRoundTrip =>
        /\ IsTrimOf(final.Title, orig.Title)
        /\ IsTrimOf(final.Summary, orig.Summary)
        /\ final.PrimaryCategory = orig.PrimaryCategory
        /\ final.Categories = orig.Categories
        /\ Names(final.Authors) = Names(orig.Authors)

C12_Witness ==
    /\ RemoteRoundTrip
    /\ Len(orig.Title) = 3 /\ orig.Title[3] \in WhiteSpace
    /\ Len(final.Title) = 2
    /\ final.PrimaryCategory # <<>>

\* C13 as stated: for a local record L, articleToMeta(MetaToArticle(L)) has
\* the title, abstract, primary category and author names of L, and an
\* author's empty affiliation is still empty.
LocalRoundTrip == mode = "reverse" /\ mpc = 2 /\ orig # Nil

AuthorsKept ==
    /\ Names(final.Authors) = Names(orig.Authors)
    /\ \A i \in 1..Len(orig.Authors) :
        orig.Authors[i].Affiliation = <<>> => final.Authors[i].Affiliation = <<>>

C13_LocalRoundTripExact ==
    LocalRoundTrip =>
        /\ final.Title = orig.Title
        /\ final.Abstract = orig.Abstract
        /\ final.PrimaryCategory = orig.PrimaryCategory
        /\ AuthorsKept

\* C13 amended: the round trip keeps the primary category and the author
\* names of L and an empty affiliation, and gives L's title and abstract
\* without their leading and trailing whitespace.
C13_LocalRoundTripTrimmed ==
    LocalRoundTrip =>
        /\ IsTrimOf(final.Title, orig.Title)
        /\ IsTrimOf(final.Abstract, orig.Abstract)
        /\ final.PrimaryCategory = orig.PrimaryCategory
        /\ AuthorsKept

C13_Witness ==
    /\ LocalRoundTrip
    /\ Len(orig.Authors) = 2
    /\ orig.Authors[1].Affiliation = <<>> /\ final.Authors[1].Affiliation = <<>>
    /\ orig.Authors[2].Affiliation # <<>>
    /\ orig.Abstract # <<>> /\ final.Abstract = orig.Abstract

\* C14: articleToMeta gives one local author per remote author, in the same
\* order and with the same name, blank names included, and the category
\* list with the same elements in the same order.
C14_AuthorsAndCategoriesCopied ==
    \A c \in Conversions :
        /\ Len(c[2].Authors) = Len(c[1].Authors)
        /\ \A i \in 1..Len(c[1].Authors) : c[2].Authors[i].Name = c[1].Authors[i].Name
        /\ Len(c[2].Categories) = Len(c[1].Categories)
        /\ \A i \in 1..Len(c[1].Categories) : c[2].Categories[i] = c[1].Categories[i]

C14_Witness ==
    /\ mode = "forward" /\ mpc >= 1 /\ orig # Nil
    /\ Len(orig.Authors) = 2
    /\ orig.Authors[1].Name = <<>> /\ orig.Authors[2].Name = <<" ">>
    /\ Len(mid.Authors) = 2
    /\ orig.Categories = <<CsLG, CsLG>> /\ Len(mid.Categories) = 2

\* C15: MetaToArticle does not fail on a timestamp: a published or updated
\* text that is not in the stored date-time format gives the zero time,
\* and the identifier, title, summary, authors, categories and optional
\* fields are converted all the same.
StoredFormat(s) ==
    /\ Len(s) = 20
    /\ \A i \in (1..4) \cup {6, 7, 9, 10, 12, 13, 15, 16, 18, 19} : s[i] \in Digit
    /\ s[5] = "-" /\ s[8] = "-" /\ s[11] = "T" /\ s[14] = ":" /\ s[17] = ":" /\ s[20] = "Z"

C15_BadTimestampGivesZeroTime ==
    \A e \in Exports :
        /\ e[2] # Nil
        /\ ~StoredFormat(e[1].Published) => e[2].Published = ZeroTime
        /\ ~StoredFormat(e[1].Updated) => e[2].Updated = ZeroTime
        /\ e[2].ID = e[1].ArxivID
        /\ e[2].Title = e[1].Title
        /\ e[2].Summary = e[1].Abstract
        /\ Names(e[2].Authors) = Names(e[1].Authors)
        /\ e[2].PrimaryCategory = e[1].PrimaryCategory
        /\ e[2].Categories = e[1].Categories
        /\ ToRemoteOptional(e[1].Comment, e[2].Comment)
        /\ ToRemoteOptional(e[1].JournalRef, e[2].JournalRef)
        /\ ToRemoteOptional(e[1].DOI, e[2].DOI)

C15_Witness ==
    /\ mode = "reverse" /\ mpc >= 1 /\ orig # Nil
    /\ orig.Published = NotATime /\ mid.Published = ZeroTime
    /\ StoredFormat(orig.Updated) /\ mid.Updated # ZeroTime
    /\ mid.Comment.present

\* C16: for a non-nil remote record, url is https://arxiv.org/abs/ followed
\* by the remote identifier, version suffix included, and pdf_url is
\* https://arxiv.org/pdf/ followed by the identifier without its version
\* suffix and ".pdf".
HttpsArxivOrg == <<"h", "t", "t", "p", "s", ":", "/", "/", "a", "r", "x", "i", "v", ".", "o", "r", "g", "/">>

IsBaseOf(b, id) ==
    /\ \E v \in {<<>>} \cup VersionSuffixes : id = b \o v
    /\ \A v \in VersionSuffixes : ~EndsWith(b, v)

C16_UrlsFromIdentifier ==
    \A c \in Conversions :
        /\ c[2].URL = HttpsArxivOrg \o <<"a", "b", "s", "/">> \o c[1].ID
        /\ \E k \in 0..Len(c[1].ID) :
            /\ IsBaseOf(SubSeq(c[1].ID, 1, k), c[1].ID)
            /\ c[2].PDFURL = HttpsArxivOrg \o <<"p", "d", "f", "/">> \o SubSeq(c[1].ID, 1, k)
                                \o <<".", "p", "d", "f">>

C16_Witness ==
    /\ mode = "forward" /\ mpc >= 1 /\ orig # Nil
    /\ EndsWith(orig.ID, <<"v">> \o DigitRun(MaxVersionDigits))
    /\ EndsWith(mid.URL, <<"v">> \o DigitRun(MaxVersionDigits))
    /\ EndsWith(mid.PDFURL, DigitRun(5) \o <<".", "p", "d", "f">>)

(***************************************************************************)
(* The file system under the commands.  A path is the sequence of its      *)
(* components from the root directory, and fs maps every existing path to  *)
(* its node: a directory, or a file with its content.                      *)
(***************************************************************************)
Dir == [kind |-> "dir"]
File(data) == [kind |-> "file", data |-> data]

IsPrefix(p, q) == Len(p) <= Len(q) /\ SubSeq(q, 1, Len(p)) = p
Parent(p) == SubSeq(p, 1, Len(p) - 1)
Prefixes(p) == {SubSeq(p, 1, k) : k \in 0..Len(p)}

\* os.Stat(p) returns no error
Exists(f, p) == p \in DOMAIN f
IsDir(f, p) == p \in DOMAIN f /\ f[p].kind = "dir"
IsFile(f, p) == p \in DOMAIN f /\ f[p].kind = "file"

\* strings.Split(s, "/")
RECURSIVE SplitSlash(_)
SplitSlash(s) ==
    LET at == {i \in 1..Len(s) : s[i] = "/"} IN
        IF at = {} THEN <<s>>
        ELSE <<SubSeq(s, 1, Min(at) - 1)>> \o SplitSlash(SubSeq(s, Min(at) + 1, Len(s)))

\* filepath.Clean over the components that follow the clean rooted path p
RECURSIVE CleanInto(_, _)
CleanInto(p, comps) ==
    IF comps = <<>> THEN p
    ELSE LET c == Head(comps) IN
        CleanInto(IF c = <<>> \/ c = <<".">> THEN p
                  ELSE IF c = <<".", ".">> THEN (IF p = <<>> THEN p ELSE Parent(p))
                  ELSE Append(p, c),
                  Tail(comps))

\* filepath.Join(dir, name) for a clean rooted dir
Join(dir, name) == CleanInto(dir, SplitSlash(name))

\* os.MkdirAll(p): fails when a path on the way is a file
MkdirAllOk(f, p) == \A q \in Prefixes(p) : q \in DOMAIN f => f[q].kind = "dir"
MkdirAll(f, p) == [q \in DOMAIN f \cup Prefixes(p) |-> IF q \in DOMAIN f THEN f[q] ELSE Dir]

\* os.WriteFile(p, data) and os.Create(p): the parent must be a directory
\* and p must not be one
WriteFileOk(f, p) == p # <<>> /\ IsDir(f, Parent(p)) /\ ~IsDir(f, p)
WriteFile(f, p, data) == [q \in DOMAIN f \cup {p} |-> IF q = p THEN File(data) ELSE f[q]]

\* os.RemoveAll(p): p and everything below it; no error when p is missing
RemoveAll(f, p) == [q \in {r \in DOMAIN f : ~IsPrefix(p, r)} |-> f[q]]

\* what a failed os.RemoveAll(p) may leave: p itself, emptied
RemoveBelow(f, p) == [q \in {r \in DOMAIN f : r = p \/ ~IsPrefix(p, r)} |-> f[q]]

\* entry names of os.ReadDir(p)
ReadDir(f, p) == {q[Len(q)] : q \in {r \in DOMAIN f : Len(r) = Len(p) + 1 /\ IsPrefix(p, r)}}

(***************************************************************************)
(* meta.yaml: the YAML document of an ArxivMeta.  A document is the        *)
(* function from the keys written to their values; keys tagged omitempty   *)
(* are left out when the value is empty and read back as the zero value.   *)
(***************************************************************************)
OmitEmptyKeys == {"Comment", "JournalRef", "DOI"}

ZeroMeta ==
    [ID |-> <<>>, ArxivID |-> <<>>, Title |-> <<>>, SourceType |-> <<>>, URL |-> <<>>,
     PDFURL |-> <<>>, Published |-> <<>>, Updated |-> <<>>, Authors |-> <<>>,
     Abstract |-> <<>>, Categories |-> <<>>, PrimaryCategory |-> <<>>, Comment |-> <<>>,
     JournalRef |-> <<>>, DOI |-> <<>>, Version |-> 0, FetchedAt |-> <<>>]

EncodeAuthor(a) == IF a.Affiliation = <<>> THEN [Name |-> a.Name] ELSE a
DecodeAuthor(y) ==
    [Name |-> y.Name,
     Affiliation |-> IF "Affiliation" \in DOMAIN y THEN y.Affiliation ELSE <<>>]

\* yaml.NewEncoder(...).Encode(meta)
EncodeMeta(meta) ==
    [k \in DOMAIN meta \ {o \in OmitEmptyKeys : meta[o] = <<>>} |->
        IF k = "Authors"
        THEN [i \in 1..Len(meta.Authors) |-> EncodeAuthor(meta.Authors[i])]
        ELSE meta[k]]

\* yaml.Unmarshal(data, &meta) of a document
DecodeMeta(doc) ==
    [k \in DOMAIN ZeroMeta |->
        IF k \notin DOMAIN doc THEN ZeroMeta[k]
        ELSE IF k = "Authors"
             THEN [i \in 1..Len(doc.Authors) |-> DecodeAuthor(doc.Authors[i])]
             ELSE doc[k]]

\* file contents: a YAML document, or bytes that are not YAML
Yaml(doc) == [yaml |-> doc]
Garbage == [garbage |-> TRUE]
IsYaml(data) == "yaml" \in DOMAIN data

\* writeMeta when the write succeeds
writeMeta(f, path, meta) == WriteFile(f, path, Yaml(EncodeMeta(meta)))

\* readMeta: (meta, err)
readMeta(f, path) ==
    IF IsFile(f, path) /\ IsYaml(f[path].data)
    THEN [meta |-> DecodeMeta(f[path].data.yaml), err |-> Nil]
    ELSE [meta |-> Nil, err |-> [read |-> path]]

(***************************************************************************)
(* The arXiv service as the commands see it.                               *)
(***************************************************************************)
\* the article the service holds under base at version n; a new version
\* brings a new title, update time and comment
ArticleAt(base, n) ==
    [DefaultRemote EXCEPT
        !.ID = base \o <<"v", DigitChars[n + 1]>>,
        !.Title = IF n = 1 THEN <<"a">> ELSE <<"a", " ", "U+00E9", "\n">>,
        !.Updated = [year |-> 2023, sec |-> 14 + n, nsec |-> 0],
        !.Comment = IF n = 1 THEN Some(<<"1", "0", " ", "p", "p">>) ELSE None]

\* client.GetByID(ctx, id): the version asked for, or the latest one
GetByID(id, latest) ==
    IF ~IsValidArxivID(id) THEN [article |-> Nil, err |-> [notFound |-> id]]
    ELSE [article |-> ArticleAt(SubSeq(id, 1, Len(id) - VersionSuffixLen(id)),
                                IF VersionSuffixLen(id) = 0 THEN latest
                                ELSE Atoi(SubSeq(id, Len(id) - VersionSuffixLen(id) + 2, Len(id)))),
          err |-> Nil]

\* what FetchArticle makes of the answer got from GetByID
FetchedArticle(got, id, now, fault) ==
    IF fault = "getByID" \/ got.err # Nil
    THEN [meta |-> Nil, err |-> [fetchArticle |-> id]]
    ELSE [meta |-> articleToMeta(got.article, now), err |-> Nil]

\* Client.FetchArticle(ctx, id): (meta, err)
FetchArticle(id, c, fault) == FetchedArticle(GetByID(id, c.latest), id, c.now, fault)

\* bytes of a PDF, whole or cut short by a failed copy
Pdf(id, whole) == [pdf |-> id, whole |-> whole]

\* a request sent to the arXiv service: for the metadata of id, or for its PDF
Request(what, id) == [request |-> what, id |-> id]

\* DownloadPDF from its call of NormalizeArxivID on, which gave n; sent is
\* the request it made
DownloadNormalized(f, n, id, destPath, fault) ==
    IF n.err # Nil THEN [fs |-> f, err |-> [invalid |-> id], sent |-> <<>>]
    ELSE IF fault = "httpStatus"
         THEN [fs |-> f, err |-> [http |-> n.id], sent |-> <<Request("pdf", n.id)>>]
    ELSE IF ~WriteFileOk(f, destPath)
         THEN [fs |-> f, err |-> [create |-> destPath], sent |-> <<Request("pdf", n.id)>>]
    ELSE IF fault = "copy"
         THEN [fs |-> WriteFile(f, destPath, Pdf(n.id, FALSE)), err |-> [copy |-> n.id],
               sent |-> <<Request("pdf", n.id)>>]
         ELSE [fs |-> WriteFile(f, destPath, Pdf(n.id, TRUE)), err |-> Nil,
               sent |-> <<Request("pdf", n.id)>>]

\* Client.DownloadPDF(ctx, id, destPath, progress): (fs, err, sent)
DownloadPDF(f, id, destPath, fault) ==
    DownloadNormalized(f, NormalizeArxivID(id), id, destPath, fault)

(***************************************************************************)
(* The commands.  A command c is its arguments and flags together with     *)
(* what it meets while it runs: the latest version the service holds, the  *)
(* clock reading, the answer typed at the prompt, and at most one I/O      *)
(* fault, met while the faultAt-th identifier is processed.  Running it    *)
(* gives the file system it leaves, the error it returns and, in order,    *)
(* the lines it prints and the requests it sends.                          *)
(***************************************************************************)
Home == <<"h", "o", "m", "e">>
Research == <<"r", "e", "s", "e", "a", "r", "c", "h">>
Papers == <<"p", "a", "p", "e", "r", "s">>
MetaYaml == <<"m", "e", "t", "a", ".", "y", "a", "m", "l">>
PaperPdf == <<"p", "a", "p", "e", "r", ".", "p", "d", "f">>
NotesMd == <<"n", "o", "t", "e", "s", ".", "m", "d">>
BodyMd == <<"b", "o", "d", "y", ".", "m", "d">>

ResearchRoot == <<Home, Research>>            \* cfg.ResearchRoot
PapersRoot == Join(ResearchRoot, Papers)

Line(what, id) == [line |-> what, id |-> id]
Result(f, err, lines) == [fs |-> f, err |-> err, out |-> lines]

\* the writeMeta call of a command under the fault it meets: (fs, err)
WriteMetaUnder(f, path, meta, fault) ==
    IF fault = "metaOpen" \/ ~WriteFileOk(f, path) THEN [fs |-> f, err |-> [write |-> path]]
    ELSE IF fault = "metaCut" THEN [fs |-> WriteFile(f, path, Garbage), err |-> [write |-> path]]
    ELSE [fs |-> writeMeta(f, path, meta), err |-> Nil]

\* notes.md as the template fills it
authorNames(meta) == [i \in 1..Len(meta.Authors) |-> meta.Authors[i].Name]
NotesTemplate(meta, id) ==
    [notes |-> [title |-> meta.Title, arxiv |-> id, authors |-> authorNames(meta)]]

\* the end of a round of the fetch loop: the text extraction asked for
\* with --extract-text, whose failure is a warning, and the line "saved"
ExtractInto(f, bodyPath, id, c, fault, lines) ==
    IF ~c.extract THEN Result(f, Nil, Append(lines, Line("saved", id)))
    ELSE IF fault # "extract" /\ WriteFileOk(f, bodyPath)
         THEN Result(WriteFile(f, bodyPath, [text |-> id]), Nil, Append(lines, Line("saved", id)))
         ELSE Result(f, Nil, lines \o <<Line("extract failed", id), Line("saved", id)>>)

\* slip: the notes template is not written
NotesIntoNoTemplate(wm, destDir, id, meta, c, fault, lines) ==
    IF wm.err # Nil THEN Result(wm.fs, [writeMeta |-> id], lines)
    ELSE ExtractInto(wm.fs, Join(destDir, BodyMd), id, c, fault, lines)

\* the round from the writeMeta call on, which gave wm
NotesInto(wm, destDir, id, meta, c, fault, lines) ==
    IF wm.err # Nil THEN Result(wm.fs, [writeMeta |-> id], lines)
    ELSE IF fault = "notes" \/ ~WriteFileOk(wm.fs, Join(destDir, NotesMd))
         THEN Result(wm.fs, [writeNotes |-> id], lines)
    ELSE ExtractInto(WriteFile(wm.fs, Join(destDir, NotesMd), NotesTemplate(meta, id)),
                     Join(destDir, BodyMd), id, c, fault, lines)

\* the round from the DownloadPDF call on, which gave dl
MetaInto(dl, destDir, id, meta, c, fault, lines) ==
    IF dl.err # Nil
    THEN Result(RemoveAll(dl.fs, destDir), [download |-> id], lines \o dl.sent)
    ELSE NotesInto(WriteMetaUnder(dl.fs, Join(destDir, MetaYaml), meta, fault),
                   destDir, id, meta, c, fault, lines \o dl.sent)

\* the body of the fetch loop from the PDF download on, in the directory made
FetchInto(f, id, meta, c, fault, lines) ==
    MetaInto(DownloadPDF(f, id, Join(Join(PapersRoot, id), PaperPdf), fault),
             Join(PapersRoot, id), id, meta, c, fault, lines)

\* a round of the fetch loop from the FetchArticle call on, which gave fetched
FetchFetched(f, destDir, id, fetched, c, fault, lines) ==
    IF fetched.err # Nil THEN Result(f, [fetchMetadata |-> id], lines)
    ELSE IF ~MkdirAllOk(f, destDir) THEN Result(f, [mkdir |-> id], lines)
    ELSE IF fault = "mkdir" /\ ~Exists(f, destDir) THEN Result(f, [mkdir |-> id], lines)
    ELSE IF fault = "mkdirLast" /\ ~Exists(f, destDir)
         THEN Result(MkdirAll(f, Parent(destDir)), [mkdir |-> id], lines)
    ELSE FetchInto(MkdirAll(f, destDir), id, fetched.meta, c, fault, lines)

\* slip: a paper that exists is fetched again without --force
FetchPaperRefetchesExisting(f, id, c, fault, lines) ==
    IF c.dryRun THEN Result(f, Nil, Append(lines, Line("would fetch", id)))
    ELSE FetchFetched(f, Join(PapersRoot, id), id, FetchArticle(id, c, fault), c, fault,
                      Append(lines, Request("metadata", id)))

\* slip: a dry run makes the directory before it reports
FetchPaperDryRunLate(f, id, c, fault, lines) ==
    IF Exists(f, Join(PapersRoot, id)) /\ ~c.force
    THEN Result(f, Nil, Append(lines, Line("exists", id)))
    ELSE IF c.dryRun
         THEN Result(MkdirAll(f, Join(PapersRoot, id)), Nil, Append(lines, Line("would fetch", id)))
    ELSE FetchFetched(f, Join(PapersRoot, id), id, FetchArticle(id, c, fault), c, fault,
                      Append(lines, Request("metadata", id)))

\* one round of the fetch loop; err is set when the command returns in it
FetchPaper(f, id, c, fault, lines) ==
    IF Exists(f, Join(PapersRoot, id)) /\ ~c.force
    THEN Result(f, Nil, Append(lines, Line("exists", id)))
    ELSE IF c.dryRun THEN Result(f, Nil, Append(lines, Line("would fetch", id)))
    ELSE FetchFetched(f, Join(PapersRoot, id), id, FetchArticle(id, c, fault), c, fault,
                      Append(lines, Request("metadata", id)))

RECURSIVE FetchLoop(_, _, _, _, _)

\* the fetch loop after round i, which gave r: an error ends the command
FetchOn(r, ids, i, c) ==
    IF r.err # Nil THEN r ELSE FetchLoop(r.fs, ids, i + 1, c, r.out)

FetchLoop(f, ids, i, c, lines) ==
    IF i > Len(ids) THEN Result(f, Nil, lines)
    ELSE FetchOn(FetchPaper(f, ids[i], c, IF c.faultAt = i THEN c.fault ELSE "none", lines),
                 ids, i, c)

\* slip: the arguments before the first one rejected are fetched
FetchNormalizedAsItGoes(f, c, norm) ==
    LET bad == {i \in 1..Len(norm) : norm[i].err # Nil}
        upTo == IF bad = {} THEN Len(norm) ELSE Min(bad) - 1
        r == FetchLoop(f, [i \in 1..upTo |-> norm[i].id], 1, c, <<>>)
    IN  IF bad # {} /\ r.err = Nil
        THEN Result(r.fs, [msg |-> ErrPrefix \o c.args[Min(bad)]], r.out)
        ELSE r

\* fetch once every argument has been through NormalizeArxivID, which gave norm
FetchNormalized(f, c, norm) ==
    LET bad == {i \in 1..Len(norm) : norm[i].err # Nil} IN
        IF bad # {} THEN Result(f, [msg |-> ErrPrefix \o c.args[Min(bad)]], <<>>)
        ELSE FetchLoop(f, [i \in 1..Len(norm) |-> norm[i].id], 1, c, <<>>)

\* arc-arxiv fetch: every argument is normalized before anything is fetched
RunFetch(f, c) ==
    FetchNormalized(f, c, [i \in 1..Len(c.args) |-> NormalizeArxivID(c.args[i])])

\* file names in the order os.ReadDir lists them: by byte value
ByteOrder ==
    <<"-", ".", "0", "1", "2", "3", "4", "5", "6", "7", "8", "9",
      "a", "b", "c", "d", "e", "f", "g", "h", "i", "j", "k", "l", "m",
      "n", "o", "p", "q", "r", "s", "t", "u", "v", "w", "x", "y", "z">>
Rank(ch) == CHOOSE i \in 1..Len(ByteOrder) : ByteOrder[i] = ch

RECURSIVE NameLess(_, _)
NameLess(a, b) ==
    IF b = <<>> THEN FALSE
    ELSE IF a = <<>> THEN TRUE
    ELSE IF Head(a) = Head(b) THEN NameLess(Tail(a), Tail(b))
    ELSE Rank(Head(a)) < Rank(Head(b))

RECURSIVE SortNames(_)
SortNames(S) ==
    IF S = {} THEN <<>>
    ELSE LET first == CHOOSE a \in S : \A b \in S \ {a} : NameLess(a, b) IN
        <<first>> \o SortNames(S \ {first})

\* the identifier a delete or update argument stands for: the normalized
\* one, or the argument as typed when it does not normalize
NormalizedOr(n, arg) == IF n.err # Nil THEN arg ELSE n.id
IdOrArg(arg) == NormalizedOr(NormalizeArxivID(arg), arg)

\* a round of the update loop once the record stored is read (currentMeta)
\* and the service has answered (fetched); the record written is the
\* fetched one with fetched_at set to stamp
UpdateFetched(f, metaPath, id, currentMeta, fetched, stamp, c, fault, lines) ==
    LET newer == IF fetched.meta.Version > currentMeta.meta.Version
                 THEN <<Line("new version", id)>> ELSE <<>>
        wm == WriteMetaUnder(f, metaPath, [fetched.meta EXCEPT !.FetchedAt = stamp], fault)
        asked == Append(lines, Request("metadata", id))
    IN  IF currentMeta.err # Nil THEN Result(f, Nil, Append(lines, Line("not found locally", id)))
        ELSE IF fetched.err # Nil THEN Result(f, Nil, Append(asked, Line("failed to fetch", id)))
        ELSE IF c.check THEN Result(f, Nil, asked \o newer)
        ELSE IF wm.err # Nil
             THEN Result(wm.fs, Nil, asked \o newer \o <<Line("failed to write", id)>>)
        ELSE Result(wm.fs, Nil, asked \o newer \o <<Line("updated", id)>>)

\* slip: the fresh record is written with its own fetched_at
UpdatePaperFreshStamp(f, id, c, fault, lines) ==
    UpdateFetched(f, Join(Join(PapersRoot, id), MetaYaml), id,
                  readMeta(f, Join(Join(PapersRoot, id), MetaYaml)), FetchArticle(id, c, fault),
                  FormatRFC3339(c.now), c, fault, lines)

\* one round of the update loop, which goes on to the next paper whatever happens
UpdatePaper(f, id, c, fault, lines) ==
    UpdateFetched(f, Join(Join(PapersRoot, id), MetaYaml), id,
                  readMeta(f, Join(Join(PapersRoot, id), MetaYaml)), FetchArticle(id, c, fault),
                  readMeta(f, Join(Join(PapersRoot, id), MetaYaml)).meta.FetchedAt, c, fault, lines)

RECURSIVE UpdateLoop(_, _, _, _, _)

\* the update loop after round i, which gave r
UpdateOn(r, ids, i, c) == UpdateLoop(r.fs, ids, i + 1, c, r.out)

UpdateLoop(f, ids, i, c, lines) ==
    IF i > Len(ids) THEN Result(f, Nil, lines)
    ELSE UpdateOn(UpdatePaper(f, ids[i], c, IF c.faultAt = i THEN c.fault ELSE "none", lines),
                  ids, i, c)

\* the directories of the papers root that hold a meta.yaml
DownloadedIds(f) ==
    SortNames({n \in ReadDir(f, PapersRoot) :
                /\ IsDir(f, Join(PapersRoot, n))
                /\ Exists(f, Join(Join(PapersRoot, n), MetaYaml))})

\* update over the identifiers ids it has gathered
UpdateIds(f, c, ids) ==
    IF c.all /\ ~IsDir(f, PapersRoot) THEN Result(f, [noPapers |-> TRUE], <<>>)
    ELSE IF ~c.all /\ c.args = <<>> THEN Result(f, [specify |-> TRUE], <<>>)
    ELSE IF ids = <<>> THEN Result(f, [nothingToUpdate |-> TRUE], <<>>)
    ELSE UpdateLoop(f, ids, 1, c, <<>>)

\* arc-arxiv update
RunUpdate(f, c) ==
    UpdateIds(f, c, IF c.all THEN DownloadedIds(f)
                    ELSE [i \in 1..Len(c.args) |-> IdOrArg(c.args[i])])

\* strings.ToLower over the letters an answer is typed in
UpperLetters == <<"Y", "E", "S", "N", "O">>
LowerLetters == <<"y", "e", "s", "n", "o">>
ToLower(s) ==
    [i \in 1..Len(s) |->
        IF \E k \in 1..Len(UpperLetters) : UpperLetters[k] = s[i]
        THEN LowerLetters[CHOOSE k \in 1..Len(UpperLetters) : UpperLetters[k] = s[i]]
        ELSE s[i]]

\* bufio.Reader.ReadString('\n') on the bytes waiting on standard input
ReadString(bytes) ==
    LET at == {i \in 1..Len(bytes) : bytes[i] = "\n"} IN
        IF at = {} THEN [text |-> bytes, err |-> [eof |-> TRUE]]
        ELSE [text |-> SubSeq(bytes, 1, Min(at)), err |-> Nil]

\* slip: any answer that begins with y confirms
ConfirmedByPrefix(text) ==
    LET response == TrimSpace(ToLower(text)) IN response # <<>> /\ response[1] = "y"

\* the answer at the prompt confirms the deletion
Confirmed(text) == TrimSpace(ToLower(text)) \in {<<"y">>, <<"y", "e", "s">>}

\* the paper of identifier id as (id, path), when it exists
PaperAt(f, id, paperDir) ==
    IF Exists(f, paperDir) THEN <<[id |-> id, path |-> paperDir]>> ELSE <<>>

\* the papers of the arguments that exist, in argument order
RECURSIVE ToDelete(_, _)
ToDelete(f, ids) ==
    IF ids = <<>> THEN <<>>
    ELSE PaperAt(f, Head(ids), Join(PapersRoot, Head(ids))) \o ToDelete(f, Tail(ids))

RECURSIVE NotFoundLines(_, _)
NotFoundLines(f, ids) ==
    IF ids = <<>> THEN <<>>
    ELSE (IF Exists(f, Join(PapersRoot, Head(ids))) THEN <<>>
          ELSE <<Line("not found", Head(ids))>>)
         \o NotFoundLines(f, Tail(ids))

\* the removal loop, which goes on to the next paper when one fails
RECURSIVE DeleteLoop(_, _, _, _, _)
DeleteLoop(f, toDelete, i, c, lines) ==
    IF i > Len(toDelete) THEN Result(f, Nil, lines)
    ELSE LET p == toDelete[i]
             fault == IF c.faultAt = i THEN c.fault ELSE "none"
         IN IF fault = "removeAll"
            THEN DeleteLoop(f, toDelete, i + 1, c, Append(lines, Line("failed to delete", p.id)))
            ELSE IF fault = "removeBelow"
            THEN DeleteLoop(RemoveBelow(f, p.path), toDelete, i + 1, c,
                            Append(lines, Line("failed to delete", p.id)))
            ELSE DeleteLoop(RemoveAll(f, p.path), toDelete, i + 1, c,
                            Append(lines, Line("deleted", p.id)))

\* delete once the papers to delete are gathered and listed
DeleteListed(f, c, toDelete, listed, response) ==
    IF toDelete = <<>> THEN Result(f, [nothingToDelete |-> TRUE], listed)
    ELSE IF c.dryRun THEN Result(f, Nil, Append(listed, Line("would delete", <<>>)))
    ELSE IF ~c.force /\ response.err # Nil THEN Result(f, response.err, listed)
    ELSE IF ~c.force /\ ~Confirmed(response.text)
         THEN Result(f, Nil, Append(listed, Line("cancelled", <<>>)))
    ELSE DeleteLoop(f, toDelete, 1, c, listed)

\* delete over the identifiers ids its arguments stand for
DeleteIds(f, c, ids) ==
    DeleteListed(f, c, ToDelete(f, ids),
                 NotFoundLines(f, ids)
                    \o [i \in 1..Len(ToDelete(f, ids)) |-> Line("to delete", ToDelete(f, ids)[i].id)],
                 ReadString(c.answer))

\* arc-arxiv delete
RunDelete(f, c) == DeleteIds(f, c, [i \in 1..Len(c.args) |-> IdOrArg(c.args[i])])

\* the entries of the papers root that list, stats and export --all read a
\* record from: the directories right below it whose meta.yaml reads
CollectedEntries(f) ==
    SortNames({n \in ReadDir(f, PapersRoot) :
                /\ IsDir(f, Join(PapersRoot, n))
                /\ readMeta(f, Join(Join(PapersRoot, n), MetaYaml)).err = Nil})

\* list, stats or export --all over the entries collected: a line for
\* every record read
ListCollected(f, c, entries) ==
    IF ~IsDir(f, PapersRoot)
    THEN (IF c.name = "export" THEN Result(f, [noPapers |-> TRUE], <<>>)
          ELSE Result(f, Nil, <<Line("no papers yet", <<>>)>>))
    ELSE IF entries = <<>> /\ c.name = "export" THEN Result(f, [nothingToExport |-> TRUE], <<>>)
    ELSE IF entries = <<>> /\ c.name = "list" THEN Result(f, Nil, <<Line("no papers found", <<>>)>>)
    ELSE Result(f, Nil,
                [i \in 1..Len(entries) |->
                    Line("paper", readMeta(f, Join(Join(PapersRoot, entries[i]), MetaYaml)).meta.ArxivID)])

(***************************************************************************)
(* Inputs of the commands: the arguments typed, the flags, and what the    *)
(* command meets.  Every family varies a few fields of a default command.  *)
(***************************************************************************)
ArgNew == YearMonth \o Dot \o DigitRun(5)                       \* 2304.12345
OldId == ArchiveHepTh \o Slash \o DigitRun(7) \o <<"v", "2">>   \* hep-th/1234567v2
ArgOldUrl == SchemeHttps \o HostArxiv \o PathAbs \o OldId
ArgNotAnId == RandomText
ArgDotDot == <<".", ".">>
Drafts == <<"d", "r", "a", "f", "t", "s">>

StoredAt == [year |-> 2024, sec |-> 30, nsec |-> 0]    \* when the library at hand was fetched
RunAt == [year |-> 2025, sec |-> 7, nsec |-> 250]       \* the clock while a command runs

DefaultCommand ==
    [name |-> "fetch", args |-> <<ArgNew>>, force |-> FALSE, dryRun |-> FALSE, all |-> FALSE,
     check |-> FALSE, extract |-> FALSE, answer |-> <<"y", "\n">>, latest |-> 1, now |-> RunAt,
     fault |-> "none", faultAt |-> 0]

FetchFaults == {"getByID", "mkdir", "mkdirLast", "httpStatus", "copy", "metaOpen", "metaCut", "notes"}
UpdateFaults == {"getByID", "metaOpen", "metaCut"}
DeleteFaults == {"removeAll", "removeBelow"}

FetchArgLists ==
    {<<ArgNew>>, <<ArgOldUrl>>, <<ArgNotAnId>>, <<ArgNew, ArgOldUrl>>, <<ArgNew, ArgNotAnId>>}
FaultyArgLists == {<<ArgNew>>, <<ArgNew, ArgOldUrl>>, <<ArgOldUrl, ArgNew>>}

\* the positions in a list of the argument the fault is met at
FaultPositions(args) == {i \in 1..Len(args) : args[i] = ArgNew}

FetchCommands ==
    {[DefaultCommand EXCEPT !.args = a, !.force = f, !.dryRun = d] :
        a \in FetchArgLists, f \in BOOLEAN, d \in BOOLEAN}
    \cup {[DefaultCommand EXCEPT !.args = a, !.force = f, !.fault = x, !.faultAt = Min(FaultPositions(a))] :
            a \in FaultyArgLists, f \in BOOLEAN, x \in FetchFaults}
    \cup {[DefaultCommand EXCEPT !.args = <<ArgOldUrl>>, !.force = TRUE, !.extract = TRUE, !.latest = v,
                                 !.fault = x, !.faultAt = 1] :
            v \in {1, 2}, x \in {"none", "extract"}}

UpdateArgLists ==
    {<<>>, <<ArgNew>>, <<ArgOldUrl>>, <<ArgNotAnId>>, <<Drafts>>, <<ArgNew, ArgOldUrl>>}

UpdateCommands ==
    {[DefaultCommand EXCEPT !.name = "update", !.args = a, !.check = k] :
        a \in UpdateArgLists, k \in BOOLEAN}
    \cup {[DefaultCommand EXCEPT !.name = "update", !.args = a, !.all = l, !.check = k, !.latest = 2] :
            a \in {<<>>, <<ArgNew>>}, l \in BOOLEAN, k \in BOOLEAN}
    \cup {[DefaultCommand EXCEPT !.name = "update", !.args = a, !.fault = x,
                                 !.faultAt = Min(FaultPositions(a))] :
            a \in FaultyArgLists, x \in UpdateFaults}

DeleteArgLists ==
    {<<ArgNew>>, <<ArgOldUrl>>, <<OldId>>, <<ArgNotAnId>>, <<ArgDotDot>>, <<<<>>>>, <<ArchiveHepTh>>,
     <<ArgNew, ArgOldUrl>>, <<ArgNotAnId, ArgNew>>, <<ArgNew, ArgDotDot>>}

\* what may wait on standard input when delete asks
Answers ==
    {<<"y", "\n">>, <<"y", "e", "s", "\n">>, <<"Y", "\n">>, <<" ", "Y", "E", "S", " ", "\r", "\n">>,
     <<"n", "\n">>, <<"\n">>, <<"y", "e", "s", "s", "\n">>, <<"n", "\n", "y", "\n">>,
     <<"y">>, <<>>}

DeleteCommands ==
    {[DefaultCommand EXCEPT !.name = "delete", !.args = a, !.force = f, !.dryRun = d, !.answer = <<"n", "\n">>] :
        a \in DeleteArgLists, f \in BOOLEAN, d \in BOOLEAN}
    \cup {[DefaultCommand EXCEPT !.name = "delete", !.args = a, !.answer = w] :
            a \in {<<ArgNew>>, <<ArgNew, ArgOldUrl>>, <<ArgDotDot>>}, w \in Answers}
    \cup {[DefaultCommand EXCEPT !.name = "delete", !.args = a, !.force = TRUE, !.fault = x,
                                 !.faultAt = Min(FaultPositions(a))] :
            a \in FaultyArgLists, x \in DeleteFaults}

ListCommands ==
    {[DefaultCommand EXCEPT !.name = n, !.args = <<>>, !.all = (n = "export")] :
        n \in {"list", "stats", "export"}}

\* the library before the first command: nothing but the research root, or
\* a library of an earlier day that its owner has also written into
KeepTxt == <<"k", "e", "e", "p", ".", "t", "x", "t">>
FreshDisk ==
    WriteFile(MkdirAll((<<>> :> Dir), ResearchRoot), Join(ResearchRoot, KeepTxt), [text |-> KeepTxt])
OwnersDisk ==
    MkdirAll(MkdirAll(FreshDisk, PapersRoot), Join(PapersRoot, Drafts))
EarlierFetch ==
    [DefaultCommand EXCEPT !.args = <<ArgNew, ArgOldUrl>>, !.now = StoredAt]
Libraries ==
    {FreshDisk, OwnersDisk, RunFetch(OwnersDisk, EarlierFetch).fs}

(***************************************************************************)
(* The commands as a state machine: one command runs to its end, then the  *)
(* shell is back at its prompt.                                            *)
(***************************************************************************)
AtPrompt == [name |-> "prompt"]

\* the command as it ended: what it was, met, returned and printed
Ended(c, r) ==
    [name |-> c.name, args |-> c.args, force |-> c.force, dryRun |-> c.dryRun, all |-> c.all,
     check |-> c.check, extract |-> c.extract, answer |-> c.answer, latest |-> c.latest,
     now |-> c.now, fault |-> c.fault, faultAt |-> c.faultAt, err |-> r.err, out |-> r.out]

InitCommands ==
    /\ NormalizerIdle
    /\ MapperIdle
    /\ ProgressIdle
    /\ fs \in Libraries
    /\ cmd = AtPrompt

\* a command that ran with result r leaves its file system and its report
Ends(c, r) == fs' = r.fs /\ cmd' = Ended(c, r)

Fetch ==
    /\ cmd = AtPrompt
    /\ \E c \in FetchCommands : Ends(c, RunFetch(fs, c))
    /\ UNCHANGED <<nvars, mvars, pvars>>

Update ==
    /\ cmd = AtPrompt
    /\ \E c \in UpdateCommands : Ends(c, RunUpdate(fs, c))
    /\ UNCHANGED <<nvars, mvars, pvars>>

Delete ==
    /\ cmd = AtPrompt
    /\ \E c \in DeleteCommands : Ends(c, RunDelete(fs, c))
    /\ UNCHANGED <<nvars, mvars, pvars>>

List ==
    /\ cmd = AtPrompt
    /\ \E c \in ListCommands : Ends(c, ListCollected(fs, c, CollectedEntries(fs)))
    /\ UNCHANGED <<nvars, mvars, pvars>>

Exit ==
    /\ cmd # AtPrompt
    /\ cmd' = AtPrompt
    /\ UNCHANGED <<fs, nvars, mvars, pvars>>

NextCommands == Fetch \/ Update \/ Delete \/ List \/ Exit

SpecCommands == InitCommands /\ [][NextCommands]_vars

(***************************************************************************)
(* The progressWriter of DownloadPDF: io.Copy hands it the body chunk by   *)
(* chunk, and it reports the bytes written so far to the callback cb.      *)
(* cb is TRUE when a callback is set; a call of it is recorded as the      *)
(* pair of arguments it was given.  written is an int64, far wider than    *)
(* any sum the chunks of this model reach.                                 *)
(***************************************************************************)
\* slip: the callback is given the length of the chunk, not the sum
WriteReportsChunk(w, len) ==
    [pw |-> [w EXCEPT !.written = @ + len],
     n |-> len, err |-> Nil,
     calls |-> IF w.cb THEN <<[downloaded |-> len, total |-> w.total]>> ELSE <<>>]

\* (pw *progressWriter) Write(p) for a chunk p of len bytes: the writer it
\* leaves, the (n, err) it returns and the calls of cb it makes
Write(w, len) ==
    [pw |-> [w EXCEPT !.written = @ + len],
     n |-> len, err |-> Nil,
     calls |-> IF w.cb THEN <<[downloaded |-> w.written + len, total |-> w.total]>> ELSE <<>>]

\* resp.ContentLength as the writer is given it (-1 and 0: not known)
InitProgress ==
    /\ NormalizerIdle
    /\ MapperIdle
    /\ CommandsIdle
    /\ pw \in {[total |-> t, written |-> 0, cb |-> b] : t \in {-1, 0, 1000}, b \in BOOLEAN}
    /\ writes = <<>>

CallWrite ==
    /\ Len(writes) < MaxWrites
    /\ \E len \in 0..MaxChunkLen :
        /\ pw' = Write(pw, len).pw
        /\ writes' = Append(writes, [len |-> len, n |-> Write(pw, len).n,
                                     err |-> Write(pw, len).err, calls |-> Write(pw, len).calls])
    /\ UNCHANGED <<nvars, mvars, cvars>>

NextProgress == CallWrite

SpecProgress == InitProgress /\ [][NextProgress]_vars

\* what the commands' claims speak of: the papers of the library, where
\* each is kept, and the record its meta.yaml holds
PaperIds == {ArgNew, OldId}
PaperDir(id) == PapersRoot \o SplitSlash(id)
MetaPath(id) == Append(PaperDir(id), MetaYaml)
Stored(f, id) == readMeta(f, MetaPath(id)).meta
Printed(c, what, id) == \E i \in 1..Len(c.out) : c.out[i] = Line(what, id)
Below(f, dir) == {q \in DOMAIN f : IsPrefix(dir, q)}
SameBelow(f, g, dir) ==
    /\ Below(g, dir) = Below(f, dir)
    /\ \A q \in Below(f, dir) : g[q] = f[q]

\* C17: when update without --check rewrites a paper's meta.yaml, the
\* record stored afterwards is the freshly fetched record in every field
\* but fetched_at, which is the fetched_at stored before the update.
C17_UpdateKeepsFetchedAt ==
    [][(cmd'.name = "update" /\ ~cmd'.check) =>
        \A id \in PaperIds :
            Printed(cmd', "updated", id) =>
                LET fresh == articleToMeta(GetByID(id, cmd'.latest).article, cmd'.now) IN
                    /\ readMeta(fs', MetaPath(id)).err = Nil
                    /\ \A k \in DOMAIN ZeroMeta \ {"FetchedAt"} : Stored(fs', id)[k] = fresh[k]
                    /\ Stored(fs', id).FetchedAt = Stored(fs, id).FetchedAt]_vars

C17_Witness ==
    /\ cmd.name = "update" /\ ~cmd.check
    /\ Printed(cmd, "updated", ArgNew)
    /\ Stored(fs, ArgNew).Version = 2
    /\ Stored(fs, ArgNew).Comment = <<>>
    /\ Stored(fs, ArgNew).FetchedAt = FormatRFC3339(StoredAt)
    /\ Stored(fs, ArgNew).FetchedAt # FormatRFC3339(cmd.now)

\* C18: fetch --dry-run, delete --dry-run and update --check leave the
\* file system as it was, whatever the arguments and the library.
C18_ReadOnlyModesChangeNothing ==
    [][(\/ cmd'.name = "fetch" /\ cmd'.dryRun
        \/ cmd'.name = "delete" /\ cmd'.dryRun
        \/ cmd'.name = "update" /\ cmd'.check) => fs' = fs]_vars

C18_Witness ==
    /\ cmd.name = "fetch" /\ cmd.dryRun
    /\ Printed(cmd, "would fetch", ArgNew)
    /\ Printed(cmd, "would fetch", OldId)
    /\ ~Exists(fs, PapersRoot)

\* C19: after delete with --force, or with the prompt answered y or yes,
\* the directory of every paper it reports deleted is gone with all that
\* was in it, and the directories of the papers not named on the command
\* line are as they were.
YesWords ==
    {<<a>> : a \in {"y", "Y"}}
    \cup {<<a, b, c>> : a \in {"y", "Y"}, b \in {"e", "E"}, c \in {"s", "S"}}

\* the first line waiting on standard input says y or yes
SaysYes(bytes) ==
    \E k \in 1..Len(bytes) :
        /\ bytes[k] = "\n"
        /\ \A j \in 1..(k - 1) : bytes[j] # "\n"
        /\ \E w \in YesWords : IsTrimOf(w, SubSeq(bytes, 1, k))

Named(c) == {IdOrArg(c.args[i]) : i \in 1..Len(c.args)}

C19_DeletedAsAUnitOthersKept ==
    [][(cmd'.name = "delete" /\ ~cmd'.dryRun /\ (cmd'.force \/ SaysYes(cmd'.answer))) =>
        /\ \A id \in Named(cmd') :
            Printed(cmd', "deleted", id) => Below(fs', Join(PapersRoot, id)) = {}
        /\ \A id \in PaperIds \ Named(cmd') : SameBelow(fs, fs', PaperDir(id))]_vars

\* C20: delete without --force removes nothing unless the answer at the
\* prompt, trimmed and lower-cased, is y or yes; any other answer, or none
\* that can be read, leaves every file and directory in place.
C20_NothingRemovedWithoutYes ==
    [][(cmd'.name = "delete" /\ ~cmd'.force /\ ~SaysYes(cmd'.answer)) => fs' = fs]_vars

C20_Witness ==
    /\ cmd.name = "delete" /\ ~cmd.force /\ ~cmd.dryRun
    /\ cmd.answer = <<"y", "e", "s", "s", "\n">>
    /\ Printed(cmd, "to delete", ArgNew)
    /\ Printed(cmd, "cancelled", <<>>)
    /\ Exists(fs, MetaPath(ArgNew))

\* a request the command sent
Sent(c, what, id) == \E i \in 1..Len(c.out) : c.out[i] = Request(what, id)

\* what NormalizeArxivID makes of the arguments fetch is run with
FetchArgs == UNION {{c.args[i] : i \in 1..Len(c.args)} : c \in FetchCommands}
NormalizedArgs == {[arg |-> a, id |-> NormalizeArxivID(a).id, err |-> NormalizeArxivID(a).err] : a \in FetchArgs}
Normalized(arg) == CHOOSE n \in NormalizedArgs : n.arg = arg
AllNormalize(c) == \A i \in 1..Len(c.args) : Normalized(c.args[i]).err = Nil

\* C21: fetch without --force skips an identifier whose paper directory
\* exists: no metadata request and no download is made for it, nothing at
\* or below its directory is created, changed or removed, and the
\* identifier after it on the command line is still processed.
C21_ExistingPaperSkipped ==
    [][(cmd'.name = "fetch" /\ ~cmd'.force) =>
        \A i \in 1..Len(cmd'.args) :
            LET n == Normalized(cmd'.args[i]) IN
                (n.err = Nil /\ Exists(fs, PaperDir(n.id))) =>
                    /\ ~Sent(cmd', "metadata", n.id)
                    /\ ~Sent(cmd', "pdf", n.id)
                    /\ SameBelow(fs, fs', PaperDir(n.id))
                    /\ (i = 1 /\ AllNormalize(cmd')) => Printed(cmd', "exists", n.id)
                    /\ \A k \in 1..Len(cmd'.out) :
                            (cmd'.out[k] = Line("exists", n.id) /\ i < Len(cmd'.args)) =>
                                \E j \in (k + 1)..Len(cmd'.out) :
                                    cmd'.out[j].id = Normalized(cmd'.args[i + 1]).id]_vars

C21_Witness ==
    /\ cmd.name = "fetch" /\ ~cmd.force /\ ~cmd.dryRun
    /\ cmd.args = <<ArgNew, ArgOldUrl>>
    /\ Printed(cmd, "exists", ArgNew)
    /\ ~Sent(cmd, "metadata", ArgNew)
    /\ Sent(cmd, "metadata", OldId) /\ Sent(cmd, "pdf", OldId)
    /\ Printed(cmd, "saved", OldId)

\* C22: when fetch, not in dry-run, has saved an identifier, the directory
\* papers/<identifier> exists under the research root and holds meta.yaml
\* with the record fetched for it, paper.pdf and notes.md.
C22_SavedPaperHasItsFiles ==
    [][(cmd'.name = "fetch" /\ ~cmd'.dryRun) =>
        \A id \in PaperIds :
            Printed(cmd', "saved", id) =>
                /\ IsDir(fs', ResearchRoot \o <<Papers>> \o SplitSlash(id))
                /\ readMeta(fs', MetaPath(id)).err = Nil
                /\ Stored(fs', id) = articleToMeta(GetByID(id, cmd'.latest).article, cmd'.now)
                /\ IsFile(fs', Append(PaperDir(id), PaperPdf))
                /\ fs'[Append(PaperDir(id), PaperPdf)].data = Pdf(id, TRUE)
                /\ IsFile(fs', Append(PaperDir(id), NotesMd))]_vars

C22_Witness ==
    /\ cmd.name = "fetch" /\ ~cmd.dryRun /\ cmd.force
    /\ Printed(cmd, "saved", ArgNew) /\ Printed(cmd, "saved", OldId)
    /\ Stored(fs, ArgNew).FetchedAt = FormatRFC3339(RunAt)
    /\ Stored(fs, OldId).FetchedAt = FormatRFC3339(RunAt)
    /\ IsFile(fs, Append(PaperDir(OldId), NotesMd))

\* the sum of the lengths of the first k chunks written
RECURSIVE WrittenUpTo(_)
WrittenUpTo(k) == IF k = 0 THEN 0 ELSE WrittenUpTo(k - 1) + writes[k].len

\* C23: every Write(p) on a progressWriter returns len(p) and no error;
\* with a callback set it is called exactly once per Write, with the sum
\* of the lengths of all chunks written so far, which never decreases from
\* call to call, and with the writer's fixed total; with no callback set
\* nothing is called.
C23_WriteReportsRunningSum ==
    \A k \in 1..Len(writes) :
        /\ writes[k].n = writes[k].len
        /\ writes[k].err = Nil
        /\ pw.cb => /\ Len(writes[k].calls) = 1
                    /\ writes[k].calls[1].downloaded = WrittenUpTo(k)
                    /\ writes[k].calls[1].total = pw.total
                    /\ k > 1 => writes[k].calls[1].downloaded >= writes[k - 1].calls[1].downloaded
        /\ ~pw.cb => writes[k].calls = <<>>

C23_Witness ==
    /\ pw # Nil /\ pw.cb /\ pw.total = 1000
    /\ Len(writes) = 3
    /\ writes[1].len = 2 /\ writes[2].len = 0 /\ writes[3].len = 3
    /\ writes[3].calls = <<[downloaded |-> 5, total |-> 1000]>>
    /\ pw.written = 5

\* C24: an identifier NormalizeArxivID returns is a bare identifier of the
\* old-style or new-style grammar, and normalizing it again returns it
\* unchanged.
C24_NormalizerIdempotent ==
    Accepted =>
        /\ out.id \in GrammarIds
        /\ NormalizeArxivID(out.id).err = Nil
        /\ NormalizeArxivID(out.id).id = out.id

C24_Witness ==
    /\ Accepted
    /\ out.id \in GrammarOldIds
    /\ EndsWith(out.id, <<"v">> \o DigitRun(MaxVersionDigits))
    /\ Len(input) > Len(out.id) + Len(HostArxiv)
    /\ NormalizeArxivID(out.id).id = out.id

\* C25: fetch validates all its arguments before anything else: when
\* NormalizeArxivID rejects one of them the command returns an error
\* naming it, and it has sent no request and changed no file or directory,
\* for the valid arguments that come before it either.
C25_FetchValidatesFirst ==
    [][(cmd'.name = "fetch" /\ ~AllNormalize(cmd')) =>
        /\ cmd'.err # Nil
        /\ \E i \in 1..Len(cmd'.args) :
                /\ Normalized(cmd'.args[i]).err # Nil
                /\ cmd'.err = [msg |-> ErrPrefix \o cmd'.args[i]]
        /\ \A k \in 1..Len(cmd'.out) : "request" \notin DOMAIN cmd'.out[k]
        /\ fs' = fs]_vars

C25_Witness ==
    /\ cmd.name = "fetch" /\ ~cmd.dryRun
    /\ cmd.args = <<ArgNew, ArgNotAnId>>
    /\ cmd.err = [msg |-> ErrPrefix \o ArgNotAnId]
    /\ IsDir(fs, PapersRoot)
    /\ ~Exists(fs, PaperDir(ArgNew))
    /\ ~Sent(cmd, "metadata", ArgNew)

\* the command returned because the metadata request or the PDF download
\* of an identifier failed
FetchFailed(c) ==
    /\ c.name = "fetch"
    /\ \E id \in PaperIds : c.err = [fetchMetadata |-> id] \/ c.err = [download |-> id]

\* the paths the command may have written for the identifiers it saved
\* before it failed
SavedBy(c) == {q \in DOMAIN fs : \E id \in PaperIds : Printed(c, "saved", id) /\ IsPrefix(PaperDir(id), q)}

\* C26: a fetch that fails for an identifier, at the metadata request or at
\* the PDF download, leaves every file and directory that was under the
\* papers root before the command as it was, also the files of an existing
\* paper that --force was re-fetching.
C26_FailedFetchKeepsLibrary ==
    [][FetchFailed(cmd') =>
        \A q \in Below(fs, PapersRoot) \ SavedBy(cmd') : q \in DOMAIN fs' /\ fs'[q] = fs[q]]_vars

\* C27: whatever its arguments, delete removes only paths strictly below
\* the papers root: never the papers root itself, and nothing outside it.
C27_DeleteStaysBelowPapersRoot ==
    [][cmd'.name = "delete" =>
        \A q \in DOMAIN fs \ DOMAIN fs' : IsPrefix(PapersRoot, q) /\ q # PapersRoot]_vars

\* the directory of id holds meta.yaml, paper.pdf and notes.md
Complete(f, id) ==
    /\ IsFile(f, MetaPath(id))
    /\ IsFile(f, Append(PaperDir(id), PaperPdf))
    /\ IsFile(f, Append(PaperDir(id), NotesMd))

\* C28: when fetch returns, with or without an error, the directory of
\* every paper it created or re-fetched (it went as far as the download)
\* holds meta.yaml, paper.pdf and notes.md, or does not exist.
C28_FetchedPaperCompleteOrAbsent ==
    [][cmd'.name = "fetch" =>
        \A id \in PaperIds :
            Sent(cmd', "pdf", id) => (~Exists(fs', PaperDir(id)) \/ Complete(fs', id))]_vars

\* a directory path below the papers root as the name it has relative to it
RECURSIVE SlashJoin(_)
SlashJoin(comps) ==
    IF comps = <<>> THEN <<>>
    ELSE IF Len(comps) = 1 THEN comps[1]
    ELSE comps[1] \o Slash \o SlashJoin(Tail(comps))
RelativeName(dir) == SlashJoin(SubSeq(dir, Len(PapersRoot) + 1, Len(dir)))

\* C29: after a fetch or an update has written the meta.yaml of a paper,
\* the name of the paper's directory relative to the papers root equals
\* the arxiv_id stored in that meta.yaml, whether the paper was named by a
\* base identifier, a versioned identifier or a URL.
C29_DirectoryNamedByStoredId ==
    [][(cmd'.name \in {"fetch", "update"}) =>
        \A id \in PaperIds :
            (Printed(cmd', "saved", id) \/ Printed(cmd', "updated", id)) =>
                /\ readMeta(fs', MetaPath(id)).err = Nil
                /\ RelativeName(PaperDir(id)) = Stored(fs', id).ArxivID]_vars

\* the command enumerates the library, and it came upon the paper id
Enumerates(c) == c.name \in {"list", "stats", "export"} \/ (c.name = "update" /\ c.all)
FoundBy(c, f, id) ==
    IF c.name = "update" THEN \E i \in 1..Len(c.out) : c.out[i].id = RelativeName(PaperDir(id))
    ELSE Printed(c, "paper", Stored(f, id).ArxivID)

\* C30: list, stats, export --all and update --all come upon every paper a
\* successful fetch stored, of a new-style and of an old-style identifier:
\* its meta.yaml is in a directory right below the papers root, where
\* these commands look.
C30_EnumerationFindsEveryPaper ==
    [][Enumerates(cmd') =>
        \A id \in PaperIds :
            (Complete(fs, id) /\ readMeta(fs, MetaPath(id)).err = Nil) =>
                /\ Len(PaperDir(id)) = Len(PapersRoot) + 1
                /\ FoundBy(cmd', fs, id)]_vars

====
